---- MODULE Spec2Model ----
(***************************************************************************)
(* Model of the adapter modules under src/servers: each module is one      *)
(* process that reads its credential from the environment when it is       *)
(* imported and exposes tools; a tool builds one HTTP request from its      *)
(* parameters, awaits the response, raises on a non-2xx status and shapes  *)
(* the body.  The variables pc to outcome are one invocation; peer is a     *)
(* second invocation of a tool of the same module, whose handler runs in   *)
(* the same event loop.                                                    *)
(*                                                                         *)
(* Python values are records [t, v]: t is the Python type and v the text   *)
(* str() gives for the value.  A dict is a function from keys to values.   *)
(* A URL or a header value is the sequence of the text pieces the f-string *)
(* concatenates, with "?", "&" and "=" kept as pieces of their own.        *)
(***************************************************************************)
EXTENDS Integers, Sequences, FiniteSets, TLC

VARIABLES adapter, cred, PINECONE_ENVIRONMENT, default_models,
          pc, tool, args, wire, resp, step, acc,
          outcome, peer

vars ==
    <<adapter, cred, PINECONE_ENVIRONMENT, default_models,
     pc, tool, args, wire, resp, step, acc, outcome,
      peer>>

(***************************************************************************)
(* Bounds                                                                  *)
(***************************************************************************)
\* at most this many parameters of one call differ from their defaults
MaxSupplied == 2

\* the longest list of prompts given to batch_generate
MaxPrompts == 3

\* the longest list of models given to compare_responses
MaxModels == 4

\* the longest Mailchimp API key
MaxKeyLen == 3

\* the longest list of records given to a bulk operation
MaxRecords == 12

\* the longest list of field names given to list_records
MaxFields == 3

\* the length in bytes of the longer of the two images of the model
ImageLen == 51

(***************************************************************************)
(* Python values                                                           *)
(***************************************************************************)
None == [t |-> "none", v |-> "None"]

\* None written out by the caller: the handler receives the same None as for
\* a parameter left out, and passed only records what the caller wrote
PassedNone == [t |-> "none", v |-> "None", passed |-> TRUE]

Str(s) == [t |-> "str", v |-> s]

PyInt(s) == [t |-> "int", v |-> s]

PyFloat(s) == [t |-> "float", v |-> s]

PyBool(s) == [t |-> "bool", v |-> s]

PyList(s) == [t |-> "list", v |-> s]

PyDict(s) == [t |-> "dict", v |-> s]

IsNone(x) == x.t = "none"

\* bool(x): None, False, 0, 0.0, "", [] and {} are false, all else is true
Truthy(x) ==
    CASE x.t = "none" -> FALSE
      [] x.t = "bool" -> x.v = "True"
      [] x.t = "int" -> x.v # "0"
      [] x.t = "float" -> x.v # "0.0"
      [] x.t = "str" -> x.v # ""
      [] x.t = "list" -> x.v # "[]"
      [] x.t = "dict" -> x.v # "{}"

\* str(x), as an f-string formats the value
PyStr(x) == x.v

EmptyDict == [k \in {} |-> None]

\* d[k] = v
Put(d, k, val) == [x \in DOMAIN d \cup {k} |-> IF x = k THEN val ELSE d[x]]

\* if c: d[k] = v
PutIf(c, d, k, val) == IF c THEN Put(d, k, val) ELSE d

\* "&".join(parts) for a list of piece lists
RECURSIVE JoinAmp(_)
JoinAmp(parts) ==
    IF parts = <<>> THEN <<>>
    ELSE IF Len(parts) = 1 THEN parts[1]
    ELSE parts[1] \o <<"&">> \o JoinAmp(Tail(parts))

(***************************************************************************)
(* Requests, build results and outcomes                                    *)
(***************************************************************************)
\* the arguments of one httpx call
Request(method, url, headers, params, json) ==
    [method |-> method, url |-> url, headers |-> headers,
     params |-> params, json |-> json, graphql |-> <<>>]

\* a POST of a GraphQL document, given as the list of its text pieces
GraphQL(url, headers, query) ==
    [method |-> "POST", url |-> url, headers |-> headers,
     params |-> EmptyDict, json |-> EmptyDict, graphql |-> query]

\* a POST whose body is the form encoding of data
Form(url, headers, data) ==
    [method |-> "POST", url |-> url, headers |-> headers, params |-> EmptyDict,
     json |-> EmptyDict, graphql |-> <<>>, data |-> data]

\* response.content of the two response bodies of the model: two bytes and
\* four bytes
response_content(body) == IF body = "b1" THEN <<255, 251>> ELSE <<137, 80, 78, 71>>

\* base64.b64encode(bs).decode('utf-8'): every character of the text is given
\* by its index in the Base64 alphabet, and "=" by 64
RECURSIVE b64encode(_)
b64encode(bs) ==
    IF bs = <<>> THEN <<>>
    ELSE IF Len(bs) = 1
    THEN <<bs[1] \div 4, (bs[1] % 4) * 16, 64, 64>>
    ELSE IF Len(bs) = 2
    THEN <<bs[1] \div 4, (bs[1] % 4) * 16 + (bs[2] \div 16), (bs[2] % 16) * 4, 64>>
    ELSE <<bs[1] \div 4, (bs[1] % 4) * 16 + (bs[2] \div 16),
           (bs[2] % 16) * 4 + (bs[3] \div 64), bs[3] % 64>>
         \o b64encode(SubSeq(bs, 4, Len(bs)))

\* a list value: items are its elements, v its text
ListOf(items) ==
    [t |-> "list", v |-> IF items = <<>> THEN "[]" ELSE "[...]", items |-> items]

\* str.lower() of the texts the adapters lower
Lower(s) == CASE s = "True" -> "true" [] s = "False" -> "false" [] OTHER -> s

\* urllib.parse.quote(s, safe="") of the identifiers the model uses
quote(s) ==
    CASE s = "a/b" -> "a%2Fb"
      [] s = "feature/x" -> "feature%2Fx"
      [] OTHER -> s

\* the text httpx puts in the query string for a params value: it
\* percent-encodes the value, a "%" included
httpx_urlencode(s) ==
    CASE s = "a/b" -> "a%2Fb"
      [] s = "a%2Fb" -> "a%252Fb"
      [] OTHER -> s

\* httpx's text for a params value: booleans as "true" and "false", None as
\* the empty text, anything else as str() gives it
primitive_value_to_str(x) ==
    CASE x.t = "bool" -> Lower(x.v)
      [] x.t = "none" -> ""
      [] OTHER -> x.v

\* the handler reached its await with this request
Send(req) == [error |-> "", request |-> req, value |-> EmptyDict]

NoRequest == Request("", <<>>, EmptyDict, EmptyDict, EmptyDict)

\* the handler raised before any await
Raise(kind) == [error |-> kind, request |-> NoRequest, value |-> EmptyDict]

\* the handler returned without any await
Returns(val) == [error |-> "return", request |-> NoRequest, value |-> val]

NoOutcome ==
    [kind |-> "none", error |-> "", status |-> 0, body |-> "", value |-> EmptyDict]

\* the response envelope of a round trip, and its absence
Response(status, body) == [status |-> status, body |-> body]

NoResponse == Response(0, "")

Failure(kind, status, body) ==
    [kind |-> "error", error |-> kind, status |-> status, body |-> body,
     value |-> EmptyDict]

Success(val) == [kind |-> "ok", error |-> "", status |-> 0, body |-> "", value |-> val]

(***************************************************************************)
(* Inputs: the calls a client can make.  A call gives every parameter its  *)
(* default except at most MaxSupplied of them, which take one of the       *)
(* alternative values listed for the parameter.                            *)
(***************************************************************************)
Choices(alts) ==
    UNION { {f \in [S -> UNION {alts[p] : p \in S}] : \A p \in S : f[p] \in alts[p]} :
            S \in {T \in SUBSET DOMAIN alts : Cardinality(T) <= MaxSupplied} }

Calls(defaults, alts) ==
    { [p \in DOMAIN defaults |-> IF p \in DOMAIN f THEN f[p] ELSE defaults[p]] :
      f \in Choices(alts) }

OptStr == {Str(""), Str("x")}

OptInt == {PyInt("0"), PyInt("3")}

OptFloat == {PyFloat("0.0"), PyFloat("0.7")}

OptList == {PyList("[]"), PyList("['a']")}

(***************************************************************************)
(* Todoist (src/servers/todoist/server.py)                                 *)
(***************************************************************************)
todoist_BASE_URL == "https://api.todoist.com/rest/v2"

todoist_get_headers ==
    [Authorization |-> <<"Bearer ", PyStr(cred)>>,
     ContentType |-> <<"application/json">>]

create_task_defaults ==
    [content |-> Str("x"), description |-> None, project_id |-> None,
     section_id |-> None, parent_id |-> None, order |-> None, labels |-> None,
     priority |-> PyInt("1"), due_string |-> None, due_date |-> None,
     due_datetime |-> None, due_lang |-> Str("en"), assignee_id |-> None]

create_task_alts ==
    [description |-> OptStr, project_id |-> OptStr, section_id |-> OptStr,
     parent_id |-> OptStr, order |-> OptInt, labels |-> OptList,
     due_string |-> OptStr, due_date |-> OptStr, due_datetime |-> OptStr,
     assignee_id |-> OptStr]

create_task_payload(a) ==
    LET p0 == [content |-> a.content, priority |-> a.priority, due_lang |-> a.due_lang]
        p1 == PutIf(Truthy(a.description), p0, "description", a.description)
        p2 == PutIf(Truthy(a.project_id), p1, "project_id", a.project_id)
        p3 == PutIf(Truthy(a.section_id), p2, "section_id", a.section_id)
        p4 == PutIf(Truthy(a.parent_id), p3, "parent_id", a.parent_id)
        p5 == PutIf(~IsNone(a.order), p4, "order", a.order)
        p6 == PutIf(Truthy(a.labels), p5, "labels", a.labels)
        p7 == PutIf(Truthy(a.due_string), p6, "due_string", a.due_string)
        p8 == PutIf(Truthy(a.due_date), p7, "due_date", a.due_date)
        p9 == PutIf(Truthy(a.due_datetime), p8, "due_datetime", a.due_datetime)
    IN  PutIf(Truthy(a.assignee_id), p9, "assignee_id", a.assignee_id)

todoist_create_task(a) ==
    Send(Request("POST", <<todoist_BASE_URL, "/tasks">>, todoist_get_headers,
                 EmptyDict, create_task_payload(a)))

list_comments_defaults == [task_id |-> None, project_id |-> None]

list_comments_alts == [task_id |-> OptStr, project_id |-> OptStr]

todoist_list_comments(a) ==
    LET params == IF Truthy(a.task_id) THEN Put(EmptyDict, "task_id", a.task_id)
                  ELSE PutIf(Truthy(a.project_id), EmptyDict, "project_id", a.project_id)
    IN  Send(Request("GET", <<todoist_BASE_URL, "/comments">>, todoist_get_headers,
                     params, EmptyDict))

create_comment_defaults ==
    [content |-> Str("x"), task_id |-> None, project_id |-> None, attachment |-> None]

create_comment_alts ==
    [task_id |-> OptStr, project_id |-> OptStr,
     attachment |-> {PyDict("{}"), PyDict("{'file_name': 'f'}")}]

todoist_create_comment(a) ==
    LET p0 == [content |-> a.content]
        p1 == IF Truthy(a.task_id) THEN Put(p0, "task_id", a.task_id)
              ELSE PutIf(Truthy(a.project_id), p0, "project_id", a.project_id)
        payload == PutIf(Truthy(a.attachment), p1, "attachment", a.attachment)
    IN  Send(Request("POST", <<todoist_BASE_URL, "/comments">>, todoist_get_headers,
                     EmptyDict, payload))

(***************************************************************************)
(* ClickUp (src/servers/clickup/server.py)                                 *)
(***************************************************************************)
clickup_BASE_URL == "https://api.clickup.com/api/v2"

clickup_get_headers ==
    [Authorization |-> <<PyStr(cred)>>, ContentType |-> <<"application/json">>]

\* httpx refuses a header whose value is None (TypeError) while it builds
\* the request, before anything is sent
header_rejected == IsNone(cred)

list_lists_defaults ==
    [folder_id |-> None, space_id |-> None, archived |-> PyBool("False")]

list_lists_alts ==
    [folder_id |-> OptStr, space_id |-> OptStr, archived |-> {PyBool("True")}]

clickup_list_lists(a) ==
    LET params == [archived |-> Str(Lower(PyStr(a.archived)))]
    IN  IF Truthy(a.folder_id)
        THEN IF header_rejected THEN Raise("TypeError")
             ELSE Send(Request("GET",
                      <<clickup_BASE_URL, "/folder/", PyStr(a.folder_id), "/list">>,
                      clickup_get_headers, params, EmptyDict))
        ELSE IF Truthy(a.space_id)
        THEN IF header_rejected THEN Raise("TypeError")
             ELSE Send(Request("GET",
                      <<clickup_BASE_URL, "/space/", PyStr(a.space_id), "/list">>,
                      clickup_get_headers, params, EmptyDict))
        ELSE Raise("ValueError")

update_task_defaults ==
    [task_id |-> Str("x"), name |-> None, description |-> None, status |-> None,
     priority |-> None, due_date |-> None, time_estimate |-> None,
     assignees |-> None]

update_task_alts ==
    [name |-> OptStr, description |-> OptStr, status |-> OptStr,
     priority |-> OptInt, due_date |-> OptInt, time_estimate |-> OptInt,
     assignees |-> {PyDict("{}"), PyDict("{'add': [1]}")}]

update_task_payload(a) ==
    LET p1 == PutIf(Truthy(a.name), EmptyDict, "name", a.name)
        p2 == PutIf(Truthy(a.description), p1, "description", a.description)
        p3 == PutIf(Truthy(a.status), p2, "status", a.status)
        p4 == PutIf(Truthy(a.priority), p3, "priority", a.priority)
        p5 == PutIf(Truthy(a.due_date), p4, "due_date", a.due_date)
        p6 == PutIf(Truthy(a.time_estimate), p5, "time_estimate", a.time_estimate)
    IN  PutIf(Truthy(a.assignees), p6, "assignees", a.assignees)

clickup_update_task(a) ==
    IF header_rejected THEN Raise("TypeError")
    ELSE Send(Request("PUT", <<clickup_BASE_URL, "/task/", PyStr(a.task_id)>>,
                      clickup_get_headers, EmptyDict, update_task_payload(a)))

(***************************************************************************)
(* GitLab (src/servers/gitlab/server.py)                                   *)
(***************************************************************************)
gitlab_BASE_URL == "https://gitlab.com/api/v4"

gitlab_get_headers ==
    [PRIVATETOKEN |-> <<PyStr(cred)>>, ContentType |-> <<"application/json">>]

gitlab_api_request(method, endpoint, params, json) ==
    IF header_rejected THEN Raise("TypeError")
    ELSE Send(Request(method, <<gitlab_BASE_URL>> \o endpoint, gitlab_get_headers,
                      params, json))

list_issues_defaults ==
    [project_id |-> None, state |-> None, labels |-> None, milestone |-> None,
     assignee_id |-> None, author_id |-> None, scope |-> None,
     per_page |-> PyInt("20")]

list_issues_alts ==
    [project_id |-> {Str(""), Str("x"), Str("a/b")}, state |-> OptStr,
     labels |-> OptStr, milestone |-> OptStr, assignee_id |-> OptInt,
     author_id |-> OptInt, scope |-> OptStr]

list_issues_params(a) ==
    LET p0 == [per_page |-> a.per_page]
        p1 == PutIf(Truthy(a.state), p0, "state", a.state)
        p2 == PutIf(Truthy(a.labels), p1, "labels", a.labels)
        p3 == PutIf(Truthy(a.milestone), p2, "milestone", a.milestone)
        p4 == PutIf(Truthy(a.assignee_id), p3, "assignee_id", a.assignee_id)
        p5 == PutIf(Truthy(a.author_id), p4, "author_id", a.author_id)
    IN  PutIf(Truthy(a.scope), p5, "scope", a.scope)

gitlab_list_issues(a) ==
    IF Truthy(a.project_id)
    THEN gitlab_api_request("GET",
             <<"/projects/", quote(PyStr(a.project_id)), "/issues">>,
             list_issues_params(a), EmptyDict)
    ELSE gitlab_api_request("GET", <<"/issues">>, list_issues_params(a), EmptyDict)

list_projects_defaults ==
    [visibility |-> None, owned |-> PyBool("False"), starred |-> PyBool("False"),
     archived |-> PyBool("False"), per_page |-> PyInt("20")]

list_projects_alts ==
    [visibility |-> OptStr, owned |-> {PyBool("True")}, starred |-> {PyBool("True")},
     archived |-> {PyBool("True")}]

gitlab_list_projects(a) ==
    LET p0 == [per_page |-> a.per_page, archived |-> a.archived]
        p1 == PutIf(Truthy(a.visibility), p0, "visibility", a.visibility)
        p2 == PutIf(Truthy(a.owned), p1, "owned", PyBool("True"))
        params == PutIf(Truthy(a.starred), p2, "starred", PyBool("True"))
    IN  gitlab_api_request("GET", <<"/projects">>, params, EmptyDict)

get_project_defaults == [project_id |-> Str("x")]

get_project_alts == [project_id |-> {Str("a/b")}]

gitlab_get_project(a) ==
    LET encoded_id == quote(PyStr(a.project_id))
    IN  gitlab_api_request("GET", <<"/projects/", encoded_id>>, EmptyDict, EmptyDict)

get_commit_defaults == [project_id |-> Str("x"), sha |-> Str("abc")]

get_commit_alts == [project_id |-> {Str("a/b")}, sha |-> {Str("feature/x")}]

gitlab_get_commit(a) ==
    LET encoded_id == quote(PyStr(a.project_id))
        encoded_sha == quote(PyStr(a.sha))
    IN  gitlab_api_request("GET",
            <<"/projects/", encoded_id, "/repository/commits/", encoded_sha>>,
            EmptyDict, EmptyDict)

search_code_defaults ==
    [scope |-> Str("blobs"), search |-> Str("x"), project_id |-> None,
     per_page |-> PyInt("20")]

search_code_alts ==
    [project_id |-> {Str(""), Str("x"), Str("a/b")}, search |-> {Str("")}]

gitlab_search_code(a) ==
    LET p0 == [scope |-> a.scope, search |-> a.search, per_page |-> a.per_page]
        params == PutIf(Truthy(a.project_id), p0, "project_id",
                        Str(quote(PyStr(a.project_id))))
    IN  gitlab_api_request("GET", <<"/search">>, params, EmptyDict)

(***************************************************************************)
(* Asana (src/servers/asana/server.py)                                     *)
(***************************************************************************)
asana_BASE_URL == "https://app.asana.com/api/1.0"

asana_get_headers ==
    [Authorization |-> <<"Bearer ", PyStr(cred)>>,
     ContentType |-> <<"application/json">>]

asana_api_request(method, endpoint, params, json) ==
    Send(Request(method, <<asana_BASE_URL>> \o endpoint, asana_get_headers, params, json))

asana_update_task_defaults ==
    [task_gid |-> Str("x"), name |-> None, notes |-> None, assignee |-> None,
     due_on |-> None, start_on |-> None, completed |-> None]

asana_update_task_alts ==
    [name |-> OptStr, notes |-> OptStr, assignee |-> {PassedNone, Str("me")},
     due_on |-> {PassedNone, Str("2025-01-31")},
     start_on |-> {PassedNone, Str("2025-01-01")},
     completed |-> {PyBool("False"), PyBool("True")}]

\* data["data"]
asana_update_task_data(a) ==
    LET d1 == PutIf(~IsNone(a.name), EmptyDict, "name", a.name)
        d2 == PutIf(~IsNone(a.notes), d1, "notes", a.notes)
        d3 == PutIf(~IsNone(a.assignee), d2, "assignee", a.assignee)
        d4 == PutIf(~IsNone(a.due_on), d3, "due_on", a.due_on)
        d5 == PutIf(~IsNone(a.start_on), d4, "start_on", a.start_on)
    IN  PutIf(~IsNone(a.completed), d5, "completed", a.completed)

asana_update_task(a) ==
    asana_api_request("PUT", <<"/tasks/", PyStr(a.task_gid)>>, EmptyDict,
                      [data |-> asana_update_task_data(a)])

(***************************************************************************)
(* Pinecone (src/servers/pinecone/server.py)                               *)
(***************************************************************************)
pinecone_get_headers_raises == ~Truthy(cred)

pinecone_get_headers ==
    [ApiKey |-> <<PyStr(cred)>>, ContentType |-> <<"application/json">>]

get_index_host_raises == ~Truthy(PINECONE_ENVIRONMENT)

get_index_host(index_name) ==
    <<"https://", PyStr(index_name), "-", PyStr(PINECONE_ENVIRONMENT),
      ".svc.pinecone.io">>

OptDict == {PyDict("{}"), PyDict("{...}")}

delete_vectors_defaults ==
    [index_name |-> Str("x"), ids |-> None, delete_all |-> PyBool("False"),
     namespace |-> Str(""), filter |-> None]

delete_vectors_alts ==
    [ids |-> {ListOf(<<>>), ListOf(<<Str("v1")>>)}, delete_all |-> {PyBool("True")},
     namespace |-> {Str("x")}, filter |-> OptDict]

\* a handler that tests every selector on its own
delete_vectors_payload_every(a) ==
    LET p1 == PutIf(Truthy(a.ids), [namespace |-> a.namespace], "ids", a.ids)
        p2 == PutIf(Truthy(a.delete_all), p1, "deleteAll", PyBool("True"))
    IN  PutIf(Truthy(a.filter), p2, "filter", a.filter)

\* the if/elif chain over ids, delete_all and filter
delete_vectors_payload(a) ==
    LET payload == [namespace |-> a.namespace]
    IN  IF Truthy(a.ids) THEN Put(payload, "ids", a.ids)
        ELSE IF Truthy(a.delete_all) THEN Put(payload, "deleteAll", PyBool("True"))
        ELSE Put(payload, "filter", a.filter)

pinecone_delete_vectors(a) ==
    IF get_index_host_raises THEN Raise("ValueError")
    ELSE IF ~Truthy(a.ids) /\ ~Truthy(a.delete_all) /\ ~Truthy(a.filter)
    THEN Raise("ValueError")
    ELSE IF pinecone_get_headers_raises THEN Raise("ValueError")
    ELSE Send(Request("POST", get_index_host(a.index_name) \o <<"/vectors/delete">>,
                      pinecone_get_headers, EmptyDict, delete_vectors_payload(a)))

query_vectors_defaults ==
    [index_name |-> Str("x"), vector |-> None, id |-> None, top_k |-> PyInt("10"),
     namespace |-> Str(""), include_values |-> PyBool("False"),
     include_metadata |-> PyBool("True"), filter |-> None]

query_vectors_alts ==
    [vector |-> {ListOf(<<>>), ListOf(<<PyFloat("0.7")>>)}, id |-> OptStr,
     top_k |-> {PyInt("3")}, filter |-> OptDict]

\* the if/elif chain over vector and id, then the filter
query_vectors_payload(a) ==
    LET payload == [topK |-> a.top_k, namespace |-> a.namespace,
                    includeValues |-> a.include_values,
                    includeMetadata |-> a.include_metadata]
        p1 == IF Truthy(a.vector) THEN Put(payload, "vector", a.vector)
              ELSE Put(payload, "id", a.id)
    IN  PutIf(Truthy(a.filter), p1, "filter", a.filter)

pinecone_query_vectors(a) ==
    IF get_index_host_raises THEN Raise("ValueError")
    ELSE IF ~Truthy(a.vector) /\ ~Truthy(a.id) THEN Raise("ValueError")
    ELSE IF pinecone_get_headers_raises THEN Raise("ValueError")
    ELSE Send(Request("POST", get_index_host(a.index_name) \o <<"/query">>,
                      pinecone_get_headers, EmptyDict, query_vectors_payload(a)))

(***************************************************************************)
(* AbstractAPI (src/servers/abstract-api/server.py)                        *)
(***************************************************************************)
get_timezone_defaults == [location |-> None, latitude |-> None, longitude |-> None]

get_timezone_alts ==
    [location |-> OptStr, latitude |-> OptFloat, longitude |-> OptFloat]

abstract_get_timezone(a) ==
    LET params == [api_key |-> cred]
    IN  IF Truthy(a.location)
        THEN Send(Request("GET", <<"https://timezone.abstractapi.com/v1/current_time/">>,
                          EmptyDict, Put(params, "location", a.location), EmptyDict))
        ELSE IF ~IsNone(a.latitude) /\ ~IsNone(a.longitude)
        THEN Send(Request("GET", <<"https://timezone.abstractapi.com/v1/current_time/">>,
                          EmptyDict,
                          Put(Put(params, "latitude", a.latitude), "longitude", a.longitude),
                          EmptyDict))
        ELSE Raise("ValueError")

\* the number of hex characters generate_screenshot returns
HexPrefix == 100

\* response.content of the two responses of the screenshot API: two bytes,
\* and an image of ImageLen bytes
image_content(body) ==
    IF body = "b1" THEN response_content(body)
    ELSE [i \in 1..ImageLen |->
             IF i <= Len(response_content(body)) THEN response_content(body)[i] ELSE 0]

\* bytes.hex(): two hex digits for every byte
RECURSIVE hex(_)
hex(bs) ==
    LET digits == <<"0", "1", "2", "3", "4", "5", "6", "7", "8", "9",
                    "a", "b", "c", "d", "e", "f">>
    IN  IF bs = <<>> THEN <<>>
        ELSE <<digits[(bs[1] \div 16) + 1], digits[(bs[1] % 16) + 1]>> \o hex(Tail(bs))

\* s[:n]
Prefix(s, n) == SubSeq(s, 1, IF Len(s) < n THEN Len(s) ELSE n)

generate_screenshot_defaults ==
    [url |-> Str("https://h/"), width |-> PyInt("1920"), height |-> PyInt("1080"),
     full_page |-> PyBool("False")]

generate_screenshot_alts ==
    [width |-> {PyInt("0")}, full_page |-> {PyBool("True")}]

abstract_generate_screenshot(a) ==
    Send(Request("GET", <<"https://screenshot.abstractapi.com/v1/">>, EmptyDict,
                 [api_key |-> cred, url |-> a.url, width |-> a.width,
                  height |-> a.height, full_page |-> Str(Lower(PyStr(a.full_page)))],
                 EmptyDict))

\* the result built from the response; content_type stands for the header
generate_screenshot_result(a, body) ==
    [success |-> TRUE, url |-> a.url,
     image_data |-> Prefix(hex(image_content(body)), HexPrefix) \o <<"...">>,
     content_type |-> "content-type",
     note |-> "Full image data available in response"]

\* a number the handlers compute with: n is its value
Num(n) == [t |-> "float", v |-> IF n = 0 THEN "0.0" ELSE "num", n |-> n]

convert_currency_defaults ==
    [base |-> Str("USD"), target |-> Str("EUR"), amount |-> Num(3), date |-> None]

convert_currency_alts ==
    [target |-> {Str("JPY"), Str("GBP")}, amount |-> {Num(0), Num(-2)}, date |-> OptStr]

\* response.json() of the two response bodies of the model: a rate table,
\* and a body without one
exchange_rates_json(body) ==
    IF body = "b1"
    THEN [base |-> "USD", exchange_rates |-> [EUR |-> 2, GBP |-> 5]]
    ELSE [base |-> "USD", last_updated |-> 7]

abstract_convert_currency(a) ==
    LET p0 == [api_key |-> cred, base |-> a.base, target |-> a.target]
        params == PutIf(Truthy(a.date), p0, "date", a.date)
        endpoint == IF ~Truthy(a.date) THEN "live" ELSE "historical"
    IN  Send(Request("GET",
                     <<"https://exchange-rates.abstractapi.com/v1/", endpoint, "/">>,
                     EmptyDict, params, EmptyDict))

\* a shaper that attaches the rate itself as the converted amount
convert_currency_result_rate_only(a, result) ==
    IF "exchange_rates" \in DOMAIN result
       /\ PyStr(a.target) \in DOMAIN result.exchange_rates
    THEN LET rate == result.exchange_rates[PyStr(a.target)]
         IN  Put(Put(result, "converted_amount", rate), "amount", a.amount.n)
    ELSE result

\* the lines after result = response.json()
convert_currency_result(a, result) ==
    IF "exchange_rates" \in DOMAIN result
       /\ PyStr(a.target) \in DOMAIN result.exchange_rates
    THEN LET rate == result.exchange_rates[PyStr(a.target)]
         IN  Put(Put(result, "converted_amount", a.amount.n * rate), "amount", a.amount.n)
    ELSE result

(***************************************************************************)
(* TMDB (src/servers/tmdb/server.py)                                       *)
(***************************************************************************)
tmdb_BASE_URL == "https://api.themoviedb.org/3"

\* get_url without its "is not None" filter
get_url_keeps_none(endpoint, params) ==
    LET ps == Append(params, <<"api_key", cred>>)
        parts == [i \in 1..Len(ps) |-> <<ps[i][1], "=", PyStr(ps[i][2])>>]
    IN  <<tmdb_BASE_URL, "/", endpoint, "?">> \o JoinAmp(parts)

\* get_url over a params dict kept at module level: what a call in flight
\* at the same time has put there is still in it
get_url_shared(endpoint, params) ==
    LET left == IF peer.pc = "awaiting" /\ peer.tool = "search_movies"
                THEN << <<"year", peer.args.year>> >> ELSE <<>>
        ps == Append(SelectSeq(params, LAMBDA kv : kv[1] # "year" \/ left = <<>>) \o left,
                     <<"api_key", cred>>)
        kept == SelectSeq(ps, LAMBDA kv : ~IsNone(kv[2]))
        parts == [i \in 1..Len(kept) |-> <<kept[i][1], "=", PyStr(kept[i][2])>>]
    IN  <<tmdb_BASE_URL, "/", endpoint, "?">> \o JoinAmp(parts)

\* params is the keyword dict in insertion order, a list of <<key, value>>
get_url(endpoint, params) ==
    LET ps == Append(params, <<"api_key", cred>>)
        kept == SelectSeq(ps, LAMBDA kv : ~IsNone(kv[2]))
        parts == [i \in 1..Len(kept) |-> <<kept[i][1], "=", PyStr(kept[i][2])>>]
    IN  <<tmdb_BASE_URL, "/", endpoint, "?">> \o JoinAmp(parts)

search_movies_defaults ==
    [query |-> Str("x"), language |-> Str("en-US"), page |-> PyInt("1"),
     include_adult |-> PyBool("False"), year |-> None]

search_movies_alts ==
    [query |-> {Str("")}, page |-> {PyInt("0")},
     include_adult |-> {PyBool("True")}, year |-> OptInt]

tmdb_search_movies(a) ==
    Send(Request("GET",
                 get_url("search/movie",
                         << <<"query", a.query>>, <<"language", a.language>>,
                            <<"page", a.page>>, <<"include_adult", a.include_adult>>,
                            <<"year", a.year>> >>),
                 EmptyDict, EmptyDict, EmptyDict))

(***************************************************************************)
(* Gemini (src/servers/gemini/server.py)                                   *)
(***************************************************************************)
gemini_BASE_URL == "https://generativelanguage.googleapis.com/v1beta"

\* get_url_with_key raises ValueError exactly when this holds
get_url_with_key_raises == ~Truthy(cred)

\* endpoint is the list of the pieces of the endpoint text
get_url_with_key(endpoint) ==
    <<gemini_BASE_URL, "/">> \o endpoint \o <<"?", "key", "=", PyStr(cred)>>

generate_text_defaults ==
    [prompt |-> Str("x"), model |-> Str("gemini-1.5-flash-latest"),
     temperature |-> None, top_p |-> None, top_k |-> None,
     max_output_tokens |-> None, system_instruction |-> None]

generate_text_alts ==
    [temperature |-> OptFloat, top_p |-> OptFloat, top_k |-> OptInt,
     max_output_tokens |-> OptInt, system_instruction |-> OptStr,
     model |-> {Str("gemini-1.5-pro-latest")}]

\* contents and systemInstruction stand for {"parts": [{"text": value}]}
generate_text_payload(a) ==
    LET payload == [contents |-> a.prompt]
        g1 == PutIf(~IsNone(a.temperature), EmptyDict, "temperature", a.temperature)
        g2 == PutIf(~IsNone(a.top_p), g1, "topP", a.top_p)
        g3 == PutIf(~IsNone(a.top_k), g2, "topK", a.top_k)
        generation_config ==
            PutIf(~IsNone(a.max_output_tokens), g3, "maxOutputTokens", a.max_output_tokens)
        p1 == PutIf(DOMAIN generation_config # {}, payload,
                    "generationConfig", generation_config)
    IN  PutIf(Truthy(a.system_instruction), p1, "systemInstruction", a.system_instruction)

gemini_generate_text(a) ==
    IF get_url_with_key_raises THEN Raise("ValueError")
    ELSE Send(Request("POST",
                      get_url_with_key(<<"models/", PyStr(a.model), ":generateContent">>),
                      EmptyDict, EmptyDict, generate_text_payload(a)))

batch_generate_defaults ==
    [model |-> Str("gemini-1.5-flash-latest"), temperature |-> None]

batch_generate_alts ==
    [temperature |-> OptFloat, model |-> {Str("gemini-1.5-pro-latest")}]

\* the lists of prompts a caller passes: up to MaxPrompts prompts
PromptLists ==
    UNION { [1..n -> {Str("p"), Str("q")}] : n \in 0..MaxPrompts }

\* requests[i], the payload built for prompts[i]
batch_generate_payload(a, i) ==
    PutIf(~IsNone(a.temperature), [contents |-> a.prompts.items[i]],
          "generationConfig", [temperature |-> a.temperature])

\* the POST of the loop's i-th iteration
batch_generate_request(a, i) ==
    Request("POST",
            get_url_with_key(<<"models/", PyStr(a.model), ":generateContent">>),
            EmptyDict, EmptyDict, batch_generate_payload(a, i))

gemini_batch_generate(a) ==
    IF Len(a.prompts.items) = 0 THEN Returns([results |-> <<>>])
    ELSE IF get_url_with_key_raises THEN Raise("ValueError")
    ELSE Send(batch_generate_request(a, 1))

gemini_count_tokens_defaults ==
    [text |-> Str("x"), model |-> Str("gemini-1.5-flash-latest")]

gemini_model_alts == [model |-> {Str("gemini-1.5-pro-latest")}]

gemini_count_tokens(a) ==
    IF get_url_with_key_raises THEN Raise("ValueError")
    ELSE Send(Request("POST",
                      get_url_with_key(<<"models/", PyStr(a.model), ":countTokens">>),
                      EmptyDict, EmptyDict, [contents |-> a.text]))

stream_generate_defaults ==
    [prompt |-> Str("x"), model |-> Str("gemini-1.5-flash-latest"),
     temperature |-> None]

gemini_stream_generate(a) ==
    IF get_url_with_key_raises THEN Raise("ValueError")
    ELSE Send(Request("POST",
                      get_url_with_key(<<"models/", PyStr(a.model),
                                         ":streamGenerateContent", "?", "alt", "=", "sse">>),
                      EmptyDict, EmptyDict,
                      PutIf(~IsNone(a.temperature), [contents |-> a.prompt],
                            "generationConfig", [temperature |-> a.temperature])))

embed_text_defaults ==
    [text |-> Str("x"), model |-> Str("text-embedding-004"),
     task_type |-> Str("RETRIEVAL_DOCUMENT")]

embed_text_alts ==
    [model |-> {Str("embedding-001")}, task_type |-> {Str("CLUSTERING")}]

\* the URL names text-embedding-004 whatever the model argument is
gemini_embed_text(a) ==
    IF get_url_with_key_raises THEN Raise("ValueError")
    ELSE Send(Request("POST",
                      get_url_with_key(<<"models/", "text-embedding-004", ":embedContent">>),
                      EmptyDict, EmptyDict,
                      [model |-> <<"models/", PyStr(a.model)>>, content |-> a.text,
                       taskType |-> a.task_type]))

(***************************************************************************)
(* Claude (src/servers/claude/server.py)                                   *)
(***************************************************************************)
ANTHROPIC_BASE_URL == "https://api.anthropic.com/v1"

\* the module raises ValueError on import when the key is unset or empty
claude_import_raises(key) == ~Truthy(key)

make_claude_request(method, endpoint, data) ==
    Request(method, <<ANTHROPIC_BASE_URL, "/", endpoint>>,
            [xapikey |-> <<PyStr(cred)>>, anthropicversion |-> <<"2023-06-01">>,
             contenttype |-> <<"application/json">>],
            EmptyDict, data)

\* result.get("content", []) of the two response bodies of the model
Content(body) ==
    IF body = "b1"
    THEN << [type |-> "text", text |-> "A"], [type |-> "image", text |-> ""],
            [type |-> "text", text |-> "B"] >>
    ELSE <<>>

\* a text block filter that keeps every block
text_content_all(body) ==
    [i \in 1..Len(Content(body)) |-> Content(body)[i].text]

\* the texts of the blocks of type "text", in order
text_content(body) ==
    LET blocks == SelectSeq(Content(body), LAMBDA b : b.type = "text")
    IN  [i \in 1..Len(blocks) |-> blocks[i].text]

\* "\n".join(texts), as the list of its pieces
RECURSIVE JoinNewline(_)
JoinNewline(texts) ==
    IF texts = <<>> THEN <<>>
    ELSE IF Len(texts) = 1 THEN <<texts[1]>>
    ELSE <<texts[1], "\n">> \o JoinNewline(Tail(texts))

\* response.json() of the two response bodies: with content blocks, and
\* without a content key
claude_json(body) ==
    IF body = "b1"
    THEN [id |-> "msg_1", content |-> Content(body), usage |-> [input_tokens |-> 12]]
    ELSE [id |-> "msg_2"]

create_message_defaults ==
    [messages |-> PyList("[{'role': 'user', 'content': 'x'}]"),
     model |-> Str("claude-3-5-sonnet-20241022"), max_tokens |-> PyInt("4096"),
     system |-> None, temperature |-> None, top_p |-> None, top_k |-> None,
     stop_sequences |-> None]

create_message_alts ==
    [system |-> OptStr, temperature |-> OptFloat, top_p |-> OptFloat,
     top_k |-> OptInt, stop_sequences |-> OptList]

claude_create_message(a) ==
    LET d0 == [model |-> a.model, messages |-> a.messages, max_tokens |-> a.max_tokens]
        d1 == PutIf(Truthy(a.system), d0, "system", a.system)
        d2 == PutIf(~IsNone(a.temperature), d1, "temperature", a.temperature)
        d3 == PutIf(~IsNone(a.top_p), d2, "top_p", a.top_p)
        d4 == PutIf(~IsNone(a.top_k), d3, "top_k", a.top_k)
        data == PutIf(Truthy(a.stop_sequences), d4, "stop_sequences", a.stop_sequences)
    IN  Send(make_claude_request("POST", "messages", data))

chat_defaults ==
    [prompt |-> Str("x"), model |-> Str("claude-3-5-sonnet-20241022"),
     max_tokens |-> PyInt("4096"), system |-> None, temperature |-> None]

chat_alts == [system |-> OptStr, temperature |-> OptFloat]

\* messages stands for [{"role": "user", "content": prompt}]
claude_chat(a) ==
    LET d0 == [model |-> a.model, messages |-> a.prompt, max_tokens |-> a.max_tokens]
        d1 == PutIf(Truthy(a.system), d0, "system", a.system)
        data == PutIf(~IsNone(a.temperature), d1, "temperature", a.temperature)
    IN  Send(make_claude_request("POST", "messages", data))

\* result.get("usage", {})
claude_usage(body) ==
    IF "usage" \in DOMAIN claude_json(body) THEN claude_json(body).usage ELSE EmptyDict

\* the conversations a caller passes: none, one turn, or a turn and its answer
Histories ==
    {<<>>, <<[role |-> "user", content |-> Str("Hi")]>>,
     <<[role |-> "user", content |-> Str("Hi")],
       [role |-> "assistant", content |-> Str("Hello!")]>>}

multi_turn_conversation_defaults ==
    [new_message |-> Str("x"), model |-> Str("claude-3-5-sonnet-20241022"),
     max_tokens |-> PyInt("4096"), system |-> None]

multi_turn_conversation_alts == [system |-> OptStr, new_message |-> {Str("")}]

\* a handler that sends the new message without the history
multi_turn_messages_new_only(a) == <<[role |-> "user", content |-> a.new_message]>>

\* conversation_history + [{"role": "user", "content": new_message}]
multi_turn_messages(a) ==
    a.conversation_history.items \o <<[role |-> "user", content |-> a.new_message]>>

claude_multi_turn_conversation(a) ==
    LET d0 == [model |-> a.model, messages |-> multi_turn_messages(a),
               max_tokens |-> a.max_tokens]
    IN  Send(make_claude_request("POST", "messages",
                                 PutIf(Truthy(a.system), d0, "system", a.system)))

\* the response bodies of the model name no model and no stop_reason, so
\* the result has the model argument and the empty text for them
multi_turn_conversation_result(a, body) ==
    LET assistant_message == JoinNewline(text_content(body))
    IN  [response |-> assistant_message,
         updated_history |->
             multi_turn_messages(a)
             \o <<[role |-> "assistant", content |-> assistant_message]>>,
         usage |-> claude_usage(body), model |-> a.model, stop_reason |-> ""]

count_tokens_defaults ==
    [messages |-> PyList("[{'role': 'user', 'content': 'x'}]"),
     model |-> Str("claude-3-5-sonnet-20241022"), system |-> None]

count_tokens_alts ==
    [system |-> OptStr, model |-> {Str("claude-3-5-haiku-20241022")},
     messages |-> {PyList("[]")}]

claude_count_tokens(a) ==
    LET data == [model |-> a.model, messages |-> a.messages, max_tokens |-> PyInt("1")]
    IN  Send(make_claude_request("POST", "messages",
                                 PutIf(Truthy(a.system), data, "system", a.system)))

\* a shaper that returns the usage of the response as it came
count_tokens_result_usage(body) == claude_usage(body)

\* usage.get("input_tokens", 0) and usage.get("output_tokens", 0)
count_tokens_result(body) ==
    LET usage == claude_usage(body)
    IN  [input_tokens |->
             IF "input_tokens" \in DOMAIN usage THEN usage.input_tokens ELSE 0,
         output_tokens |->
             IF "output_tokens" \in DOMAIN usage THEN usage.output_tokens ELSE 0]

analyze_image_defaults ==
    [image_url |-> Str("https://h/i.png"), prompt |-> Str("What's in this image?"),
     model |-> Str("claude-3-5-sonnet-20241022"), max_tokens |-> PyInt("4096")]

analyze_image_alts == [prompt |-> {Str("")}, max_tokens |-> {PyInt("0")}]

\* messages stands for the user message with the image block and the text
\* block, in that order
claude_analyze_image(a) ==
    LET messages == <<[type |-> "image", url |-> a.image_url],
                      [type |-> "text", text |-> a.prompt]>>
        data == [model |-> a.model, messages |-> messages, max_tokens |-> a.max_tokens]
    IN  Send(make_claude_request("POST", "messages", data))

compare_responses_defaults ==
    [prompt |-> Str("x"), max_tokens |-> PyInt("1024"), system |-> None]

compare_responses_alts == [system |-> OptStr, max_tokens |-> {PyInt("0")}]

ModelNames == {Str("claude-3-5-sonnet-20241022"), Str("claude-3-5-haiku-20241022")}

\* the lists of models a caller passes: up to MaxModels models
ModelLists == UNION { [1..n -> ModelNames] : n \in 0..MaxModels }

\* the most models compare_responses accepts
CompareLimit == 3

compare_responses_data(a, i) ==
    PutIf(Truthy(a.system),
          [model |-> a.models.items[i], messages |-> a.prompt, max_tokens |-> a.max_tokens],
          "system", a.system)

compare_responses_request(a, i) ==
    make_claude_request("POST", "messages", compare_responses_data(a, i))

\* results[model] for one response body
compare_responses_entry(body) == [response |-> JoinNewline(text_content(body))]

\* the results dict after the loop: the last entry written for each model
compare_responses_results(a, bodies) ==
    [m \in {PyStr(a.models.items[i]) : i \in 1..Len(bodies)} |->
        LET last == CHOOSE i \in 1..Len(bodies) :
                       /\ PyStr(a.models.items[i]) = m
                       /\ \A j \in 1..Len(bodies) :
                              PyStr(a.models.items[j]) = m => j <= i
        IN  compare_responses_entry(bodies[last])]

\* a handler without the check of len(models)
claude_compare_responses_unlimited(a) ==
    IF Len(a.models.items) = 0 THEN Returns(EmptyDict)
    ELSE Send(compare_responses_request(a, 1))

claude_compare_responses(a) ==
    IF Len(a.models.items) > CompareLimit THEN Raise("ValueError")
    ELSE IF Len(a.models.items) = 0 THEN Returns(EmptyDict)
    ELSE Send(compare_responses_request(a, 1))

\* get_model_info that stamps its result with the number of calls served
claude_get_model_info_counted(a) ==
    LET info == IF a.model \in ModelNames
                THEN [name |-> "Claude 3.5", context_window |-> "200000"]
                ELSE [name |-> PyStr(a.model), context_window |-> "unknown"]
        calls == IF peer.pc = "done" THEN 2 ELSE 1
    IN  Returns(Put(Put(info, "model_id", PyStr(a.model)), "calls", calls))

get_model_info_defaults == [model |-> Str("claude-3-5-sonnet-20241022")]

get_model_info_alts == [model |-> {Str("claude-3-5-haiku-20241022"), Str("x")}]

claude_get_model_info(a) ==
    LET info == IF a.model \in ModelNames
                THEN [name |-> "Claude 3.5", context_window |-> "200000"]
                ELSE [name |-> PyStr(a.model), context_window |-> "unknown"]
    IN  Returns(Put(info, "model_id", PyStr(a.model)))

(***************************************************************************)
(* DeepL (src/servers/deepl/server.py)                                     *)
(***************************************************************************)
translate_document_defaults ==
    [document_path |-> Str("x"), target_lang |-> Str("DE"), source_lang |-> None,
     formality |-> None, filename |-> None]

translate_document_alts ==
    [source_lang |-> OptStr, formality |-> OptStr, filename |-> OptStr]

deepl_translate_document(a) ==
    Returns([document_id |-> "placeholder_id", document_key |-> "placeholder_key"])

\* API_KEY.endswith(":fx") of the keys of the model
endswith_fx(key) == key.v = "tok:fx"

deepl_BASE_URL ==
    IF Truthy(cred) /\ endswith_fx(cred) THEN "https://api-free.deepl.com/v2"
    ELSE "https://api.deepl.com/v2"

deepl_get_headers ==
    [Authorization |-> <<"DeepL-Auth-Key ", PyStr(cred)>>,
     ContentType |-> <<"application/json">>]

download_translated_document_defaults ==
    [document_id |-> Str("d1"), document_key |-> Str("k1")]

download_translated_document_alts ==
    [document_id |-> {Str("d2")}, document_key |-> {Str("")}]

deepl_download_translated_document(a) ==
    Send(Request("POST", <<deepl_BASE_URL, "/document/", PyStr(a.document_id), "/result">>,
                 deepl_get_headers, EmptyDict, [document_key |-> a.document_key]))

\* the dict download_translated_document returns
download_translated_document_result(a, body) ==
    [success |-> TRUE, document_id |-> a.document_id,
     content_type |-> "content-type", size |-> Len(response_content(body)),
     note |-> "Document content available in response"]

(***************************************************************************)
(* Mailchimp (src/servers/mailchimp/server.py)                             *)
(* The API key is a string whose characters matter: it carries them in     *)
(* chars, and v only tells the empty string from the others.               *)
(***************************************************************************)
CharStr(cs) == [t |-> "str", v |-> IF cs = <<>> THEN "" ELSE "chars", chars |-> cs]

KeyChars == {"a", "5", "-"}

\* the values of MAILCHIMP_API_KEY: unset, or up to MaxKeyLen characters
MailchimpKeys ==
    {None} \cup {CharStr(cs) : cs \in UNION { [1..n -> KeyChars] : n \in 0..MaxKeyLen }}

\* whether sep occurs in cs
Contains(cs, sep) == \E i \in 1..Len(cs) : cs[i] = sep

\* cs.split(sep)
RECURSIVE Split(_, _)
Split(cs, sep) ==
    IF ~Contains(cs, sep) THEN <<cs>>
    ELSE LET i == CHOOSE k \in 1..Len(cs) :
                     cs[k] = sep /\ \A j \in 1..(k - 1) : cs[j] # sep
         IN  <<SubSeq(cs, 1, i - 1)>> \o Split(SubSeq(cs, i + 1, Len(cs)), sep)

\* get_base_url raises ValueError exactly when this holds
get_base_url_raises == ~Truthy(cred) \/ ~Contains(cred.chars, "-")

\* the data center taken as split("-")[1]
get_base_url_second ==
    LET parts == Split(cred.chars, "-")
        dc == parts[2]
    IN  <<"https://">> \o dc \o <<".api.mailchimp.com/3.0">>

get_base_url ==
    LET parts == Split(cred.chars, "-")
        dc == parts[Len(parts)]
    IN  <<"https://">> \o dc \o <<".api.mailchimp.com/3.0">>

get_auth == [Authorization |-> <<"Basic ", "anystring", ":">> \o cred.chars]

\* hashlib.md5(email.lower().encode()).hexdigest(), as the text it hashes
md5_hash(email) == <<"md5:", Lower(PyStr(email))>>

list_audiences_defaults == [count |-> PyInt("10"), offset |-> PyInt("0")]

list_audiences_alts == [count |-> {PyInt("0")}, offset |-> {PyInt("3")}]

mailchimp_list_audiences(a) ==
    IF get_base_url_raises THEN Raise("ValueError")
    ELSE Send(Request("GET", get_base_url \o <<"/lists">>, get_auth,
                      [count |-> a.count, offset |-> a.offset], EmptyDict))

delete_member_defaults == [list_id |-> Str("x"), email_address |-> Str("A@b.c")]

delete_member_alts == [list_id |-> {Str("y")}, email_address |-> {Str("")}]

mailchimp_delete_member(a) ==
    IF get_base_url_raises THEN Raise("ValueError")
    ELSE Send(Request("DELETE",
                      get_base_url \o <<"/lists/", PyStr(a.list_id), "/members/">>
                          \o md5_hash(a.email_address),
                      get_auth, EmptyDict, EmptyDict))

(***************************************************************************)
(* Stripe (src/servers/stripe/server.py)                                   *)
(***************************************************************************)
stripe_BASE_URL == "https://api.stripe.com/v1"

\* get_headers raises ValueError exactly when this holds
stripe_get_headers_raises == ~Truthy(cred)

stripe_get_headers ==
    [Authorization |-> <<"Bearer ", PyStr(cred)>>,
     ContentType |-> <<"application/x-www-form-urlencoded">>]

list_customers_defaults == [limit |-> PyInt("10"), starting_after |-> None]

list_customers_alts == [limit |-> {PyInt("0")}, starting_after |-> OptStr]

stripe_list_customers(a) ==
    LET params == PutIf(Truthy(a.starting_after), [limit |-> a.limit],
                        "starting_after", a.starting_after)
    IN  IF stripe_get_headers_raises THEN Raise("ValueError")
        ELSE Send(Request("GET", <<stripe_BASE_URL, "/customers">>, stripe_get_headers,
                          params, EmptyDict))

(***************************************************************************)
(* Linear (src/servers/linear/server.py)                                   *)
(***************************************************************************)
linear_BASE_URL == "https://api.linear.app/graphql"

linear_get_headers ==
    [Authorization |-> <<PyStr(cred)>>, ContentType |-> <<"application/json">>]

graphql_query(query) ==
    IF header_rejected THEN Raise("TypeError")
    ELSE Send(GraphQL(<<linear_BASE_URL>>, linear_get_headers, query))

list_labels_defaults == [team_id |-> None]

list_labels_alts == [team_id |-> OptStr]

linear_list_labels(a) ==
    LET filter_str == IF Truthy(a.team_id)
                      THEN <<"filter", ":", "{ team: { id: { eq: \"",
                             PyStr(a.team_id), "\" } } }">>
                      ELSE <<>>
    IN  graphql_query(<<"query {", "issueLabels", "(">> \o filter_str
                      \o <<")", "{ nodes { id name description color team { id name } } }",
                           "}">>)

\* the characters a text is interpolated as
Chars(x) == IF "chars" \in DOMAIN x THEN x.chars ELSE <<PyStr(x)>>

\* f'"{x}"': the text between two double quotes, with nothing escaped
Literal(x) == <<"\"">> \o Chars(x) \o <<"\"">>

\* ", ".join(parts) for a list of piece lists
RECURSIVE JoinComma(_)
JoinComma(parts) ==
    IF parts = <<>> THEN <<>>
    ELSE IF Len(parts) = 1 THEN parts[1]
    ELSE parts[1] \o <<",">> \o JoinComma(Tail(parts))

\* the texts appended under their conditions, in the order of the ifs
Appended(cands) ==
    LET kept == SelectSeq(cands, LAMBDA c : c.cond)
    IN  [i \in 1..Len(kept) |-> kept[i].text]

\* f'{key}: {{ {field}: {{ eq: "{x}" }} }}'
eq_filter(key, field, x) ==
    <<key, ":", "{ " \o field \o ": { eq: ">> \o Literal(x) \o <<" } }">>

linear_list_issues_defaults ==
    [team_id |-> None, project_id |-> None, assignee_id |-> None,
     label_id |-> None, state |-> None, first |-> PyInt("50")]

linear_list_issues_alts ==
    [team_id |-> OptStr, project_id |-> {Str("x")}, assignee_id |-> {Str("x")},
     label_id |-> {Str("x")}, state |-> {Str("started")}]

linear_list_issues(a) ==
    LET filters == Appended(<<
            [cond |-> Truthy(a.team_id), text |-> eq_filter("team", "id", a.team_id)],
            [cond |-> Truthy(a.project_id),
             text |-> eq_filter("project", "id", a.project_id)],
            [cond |-> Truthy(a.assignee_id),
             text |-> eq_filter("assignee", "id", a.assignee_id)],
            [cond |-> Truthy(a.label_id), text |-> eq_filter("labels", "id", a.label_id)],
            [cond |-> Truthy(a.state), text |-> eq_filter("state", "name", a.state)] >>)
        filter_str == JoinComma(filters)
    IN  graphql_query(<<"query {", "issues", "(", "first", ":", PyStr(a.first), ",",
                        "filter", ":", "{">> \o filter_str
                      \o <<"}", ")", "{ nodes { id title } }", "}">>)

update_issue_defaults ==
    [issue_id |-> Str("x"), title |-> None, description |-> None, priority |-> None,
     state_id |-> None, assignee_id |-> None]

update_issue_alts ==
    [title |-> OptStr, description |-> {Str("x")}, priority |-> OptInt,
     state_id |-> {Str("x")}, assignee_id |-> {Str("x")}]

linear_update_issue(a) ==
    LET updates == Appended(<<
            [cond |-> Truthy(a.title), text |-> <<"title", ":">> \o Literal(a.title)],
            [cond |-> Truthy(a.description),
             text |-> <<"description", ":">> \o Literal(a.description)],
            [cond |-> ~IsNone(a.priority), text |-> <<"priority", ":", PyStr(a.priority)>>],
            [cond |-> Truthy(a.state_id),
             text |-> <<"stateId", ":">> \o Literal(a.state_id)],
            [cond |-> Truthy(a.assignee_id),
             text |-> <<"assigneeId", ":">> \o Literal(a.assignee_id)] >>)
        update_str == JoinComma(updates)
    IN  graphql_query(<<"mutation {", "issueUpdate", "(", "id", ":">>
                      \o Literal(a.issue_id)
                      \o <<",", "input", ":", "{">> \o update_str
                      \o <<"}", ")", "{ success issue { id title state { name } } }", "}">>)

\* the query of list_projects, list_cycles and list_milestones: first and
\* the filter on the one optional id, whose text is empty without the id
first_and_filter(root, by, first, id) ==
    LET filter_str == IF Truthy(id)
                      THEN <<"filter", ":", "{ " \o by \o ": { id: { eq: ">>
                           \o Literal(id) \o <<" } } }">>
                      ELSE <<>>
    IN  graphql_query(<<"query {", root, "(", "first", ":", PyStr(first), ",">>
                      \o filter_str \o <<")", "{ nodes { id name } }", "}">>)

linear_list_projects_defaults == [team_id |-> None, first |-> PyInt("50")]

linear_list_projects(a) == first_and_filter("projects", "team", a.first, a.team_id)

list_cycles_defaults == [team_id |-> None, first |-> PyInt("20")]

linear_list_cycles(a) == first_and_filter("cycles", "team", a.first, a.team_id)

list_milestones_defaults == [project_id |-> None, first |-> PyInt("50")]

list_milestones_alts == [project_id |-> OptStr]

linear_list_milestones(a) ==
    first_and_filter("projectMilestones", "project", a.first, a.project_id)

\* the texts a caller passes: plain, or with a double quote, a backslash, a
\* brace or a newline in it
Texts ==
    {Str("x"), CharStr(<<"a", "\"", "b">>), CharStr(<<"a", "\\">>),
     CharStr(<<"a", "{", "b">>), CharStr(<<"a", "\n", "b">>)}

create_issue_defaults ==
    [team_id |-> Str("x"), title |-> Str("x"), description |-> None,
     priority |-> PyInt("0"), assignee_id |-> None, project_id |-> None,
     label_ids |-> None]

create_issue_alts ==
    [title |-> Texts, description |-> Texts, assignee_id |-> {Str("u1")},
     label_ids |-> {ListOf(<<Str("l1"), Str("l2")>>)}]

linear_create_issue(a) ==
    LET label_ids_str ==
            IF Truthy(a.label_ids)
            THEN JoinComma([i \in 1..Len(a.label_ids.items) |->
                               Literal(a.label_ids.items[i])])
            ELSE <<>>
        input_fields == Appended(<<
            [cond |-> TRUE, text |-> <<"teamId", ":">> \o Literal(a.team_id)],
            [cond |-> TRUE, text |-> <<"title", ":">> \o Literal(a.title)],
            [cond |-> TRUE, text |-> <<"priority", ":", PyStr(a.priority)>>],
            [cond |-> Truthy(a.description),
             text |-> <<"description", ":">> \o Literal(a.description)],
            [cond |-> Truthy(a.assignee_id),
             text |-> <<"assigneeId", ":">> \o Literal(a.assignee_id)],
            [cond |-> Truthy(a.project_id),
             text |-> <<"projectId", ":">> \o Literal(a.project_id)],
            [cond |-> Truthy(a.label_ids),
             text |-> <<"labelIds", ":", "[">> \o label_ids_str \o <<"]">>] >>)
        input_str == JoinComma(input_fields)
    IN  graphql_query(<<"mutation {", "issueCreate", "(", "input", ":", "{">>
                      \o input_str
                      \o <<"}", ")", "{ success issue { id title url } }", "}">>)

add_comment_defaults == [issue_id |-> Str("x"), body |-> Str("x")]

add_comment_alts == [issue_id |-> Texts, body |-> Texts]

linear_add_comment(a) ==
    graphql_query(<<"mutation {", "commentCreate", "(", "input", ":", "{",
                    "issueId", ":">> \o Literal(a.issue_id)
                  \o <<",", "body", ":">> \o Literal(a.body)
                  \o <<"}", ")", "{ success comment { id body createdAt } }", "}">>)

search_issues_defaults == [query_text |-> Str("x"), first |-> PyInt("20")]

search_issues_alts == [query_text |-> Texts]

linear_search_issues(a) ==
    graphql_query(<<"query {", "issueSearch", "(", "query", ":">>
                  \o Literal(a.query_text)
                  \o <<",", "first", ":", PyStr(a.first), ")",
                       "{ nodes { id title description url } }", "}">>)

(***************************************************************************)
(* Hugging Face (src/servers/huggingface/server.py)                        *)
(***************************************************************************)
huggingface_BASE_URL == "https://api-inference.huggingface.co"

image_to_text_defaults ==
    [image_base64 |-> Str("aGk="),
     model_id |-> Str("Salesforce/blip-image-captioning-large")]

image_to_text_alts == [image_base64 |-> {Str("")}, model_id |-> {Str("x")}]

\* the decoded bytes travel as the request content, which the model leaves out
huggingface_image_to_text(a) ==
    Send(Request("POST", <<huggingface_BASE_URL, "/models/", PyStr(a.model_id)>>,
                 [Authorization |-> <<"Bearer ", PyStr(cred)>>],
                 EmptyDict, EmptyDict))

\* get_headers raises ValueError exactly when this holds
huggingface_get_headers_raises == ~Truthy(cred)

huggingface_get_headers ==
    [Authorization |-> <<"Bearer ", PyStr(cred)>>,
     ContentType |-> <<"application/json">>]

text_to_image_defaults ==
    [prompt |-> Str("x"), model_id |-> Str("black-forest-labs/FLUX.1-dev"),
     negative_prompt |-> None, num_inference_steps |-> None, guidance_scale |-> None]

text_to_image_alts ==
    [negative_prompt |-> OptStr, num_inference_steps |-> OptInt,
     guidance_scale |-> OptFloat]

text_to_image_payload(a) ==
    LET payload == [inputs |-> a.prompt]
        q1 == PutIf(~IsNone(a.negative_prompt), EmptyDict,
                    "negative_prompt", a.negative_prompt)
        q2 == PutIf(~IsNone(a.num_inference_steps), q1,
                    "num_inference_steps", a.num_inference_steps)
        parameters == PutIf(~IsNone(a.guidance_scale), q2,
                            "guidance_scale", a.guidance_scale)
    IN  PutIf(DOMAIN parameters # {}, payload, "parameters", parameters)

huggingface_text_to_image(a) ==
    IF huggingface_get_headers_raises THEN Raise("ValueError")
    ELSE Send(Request("POST", <<huggingface_BASE_URL, "/models/", PyStr(a.model_id)>>,
                      huggingface_get_headers, EmptyDict, text_to_image_payload(a)))

\* the dict text_to_image returns
text_to_image_result(body) ==
    [image |-> b64encode(response_content(body)), format |-> "base64",
     content_type |-> "content-type"]

(***************************************************************************)
(* OpenAI (src/servers/openai/server.py)                                   *)
(***************************************************************************)
OPENAI_BASE_URL == "https://api.openai.com/v1"

\* the module raises ValueError on import when the key is unset or empty
openai_import_raises(key) == ~Truthy(key)

\* make_openai_request called with is_json=False and method POST
make_openai_request(endpoint, data) ==
    Form(<<OPENAI_BASE_URL, "/", endpoint>>,
         [Authorization |-> <<"Bearer ", PyStr(cred)>>], data)

text_to_speech_defaults ==
    [text |-> Str("x"), voice |-> Str("alloy"), model |-> Str("tts-1"),
     speed |-> PyFloat("1.0")]

text_to_speech_alts ==
    [text |-> {Str("")}, voice |-> {Str("echo")}, speed |-> {PyFloat("0.0")}]

openai_text_to_speech(a) ==
    LET data == [input |-> a.text, voice |-> a.voice, model |-> a.model,
                 speed |-> a.speed]
    IN  Send(make_openai_request("audio/speech", data))

(***************************************************************************)
(* Airtable (src/servers/airtable/server.py)                               *)
(***************************************************************************)
airtable_BASE_URL == "https://api.airtable.com/v0"

\* get_headers raises ValueError exactly when this holds
airtable_get_headers_raises == ~Truthy(cred)

airtable_get_headers ==
    [Authorization |-> <<"Bearer ", PyStr(cred)>>,
     ContentType |-> <<"application/json">>]

\* the i-th record of a caller's list: with "fields" at one parity of i + ph
RecordAt(i, ph) ==
    IF (i + ph) % 2 = 0
    THEN [id |-> i, fields |-> PyDict("{'Name': 'n'}")]
    ELSE [id |-> i, Name |-> Str("n")]

\* the lists of records a caller passes: up to MaxRecords records
RecordLists ==
    { [i \in 1..n |-> RecordAt(i, ph)] : n \in 0..MaxRecords, ph \in {0, 1} }

\* the list sent whole
Slice_unbounded(records, n) == records

\* records[:n]
Slice(records, n) == SubSeq(records, 1, IF Len(records) < n THEN Len(records) ELSE n)

\* the batch ceiling of the bulk operations
BatchCeiling == 10

\* the lists of field names a caller passes: up to MaxFields names
FieldLists == UNION { [1..n -> {Str("Name"), Str("Status")}] : n \in 0..MaxFields }

\* the sort lists a caller passes
SortLists ==
    { <<>>, <<[field |-> Str("Name")]>>,
      <<[field |-> Str("Name"), direction |-> Str("desc")],
        [field |-> Str("Status")]>> }

\* for item in items: d[k] = item
RECURSIVE PutEach(_, _, _)
PutEach(d, k, items) ==
    IF items = <<>> THEN d ELSE PutEach(Put(d, k, items[1]), k, Tail(items))

\* f"sort[{i}][field]" and f"sort[{i}][direction]" for the i of the model
sort_key(i, part) ==
    IF i = 0 THEN (IF part = "field" THEN "sort[0][field]" ELSE "sort[0][direction]")
    ELSE (IF part = "field" THEN "sort[1][field]" ELSE "sort[1][direction]")

\* the loop over enumerate(sort), from item i + 1 of the list on
RECURSIVE put_sort(_, _, _)
put_sort(d, sort, i) ==
    IF i >= Len(sort) THEN d
    ELSE LET sort_item == sort[i + 1]
             d1 == Put(d, sort_key(i, "field"), sort_item.field)
             d2 == Put(d1, sort_key(i, "direction"),
                       IF "direction" \in DOMAIN sort_item THEN sort_item.direction
                       ELSE Str("asc"))
         IN  put_sort(d2, sort, i + 1)

list_records_defaults ==
    [base_id |-> Str("app1"), table_id_or_name |-> Str("t"), fields |-> None,
     filter_by_formula |-> None, max_records |-> None, page_size |-> None,
     sort |-> None, view |-> None, offset |-> None]

list_records_alts ==
    [fields |-> {ListOf(fs) : fs \in FieldLists},
     filter_by_formula |-> OptStr, max_records |-> OptInt, page_size |-> OptInt,
     sort |-> {ListOf(s) : s \in SortLists}, view |-> OptStr, offset |-> OptStr]

list_records_params(a) ==
    LET p1 == IF Truthy(a.fields) THEN PutEach(EmptyDict, "fields[]", a.fields.items)
              ELSE EmptyDict
        p2 == PutIf(Truthy(a.filter_by_formula), p1, "filterByFormula", a.filter_by_formula)
        p3 == PutIf(Truthy(a.max_records), p2, "maxRecords", a.max_records)
        p4 == PutIf(Truthy(a.page_size), p3, "pageSize", a.page_size)
        p5 == PutIf(Truthy(a.view), p4, "view", a.view)
        p6 == PutIf(Truthy(a.offset), p5, "offset", a.offset)
    IN  IF Truthy(a.sort) THEN put_sort(p6, a.sort.items, 0) ELSE p6

airtable_list_records(a) ==
    IF airtable_get_headers_raises THEN Raise("ValueError")
    ELSE Send(Request("GET",
                      <<airtable_BASE_URL, "/", PyStr(a.base_id), "/",
                        PyStr(a.table_id_or_name)>>,
                      airtable_get_headers, list_records_params(a), EmptyDict))

search_records_defaults ==
    [base_id |-> Str("app1"), table_id_or_name |-> Str("t"),
     formula |-> Str("{Status} = 'Active'"), fields |-> None, sort |-> None,
     max_records |-> None]

search_records_alts ==
    [fields |-> {ListOf(fs) : fs \in FieldLists},
     sort |-> {ListOf(s) : s \in SortLists}, max_records |-> OptInt,
     formula |-> {Str("")}]

airtable_search_records(a) ==
    airtable_list_records(
        [base_id |-> a.base_id, table_id_or_name |-> a.table_id_or_name,
         fields |-> a.fields, filter_by_formula |-> a.formula,
         max_records |-> a.max_records, page_size |-> None, sort |-> a.sort,
         view |-> None, offset |-> None])

update_record_defaults ==
    [base_id |-> Str("app1"), table_id_or_name |-> Str("t"), record_id |-> Str("rec1"),
     fields |-> PyDict("{'Name': 'n'}"), replace_all |-> PyBool("False")]

update_record_alts ==
    [fields |-> {PyDict("{}")}, replace_all |-> {PyBool("True")},
     record_id |-> {Str("rec2")}]

\* update_record that always merges
airtable_update_record_patch_only(a) ==
    LET data == [fields |-> a.fields]
        url == <<airtable_BASE_URL, "/", PyStr(a.base_id), "/",
                 PyStr(a.table_id_or_name), "/", PyStr(a.record_id)>>
    IN  IF airtable_get_headers_raises THEN Raise("ValueError")
        ELSE Send(Request("PATCH", url, airtable_get_headers, EmptyDict, data))

airtable_update_record(a) ==
    LET data == [fields |-> a.fields]
        url == <<airtable_BASE_URL, "/", PyStr(a.base_id), "/",
                 PyStr(a.table_id_or_name), "/", PyStr(a.record_id)>>
    IN  IF airtable_get_headers_raises THEN Raise("ValueError")
        ELSE IF Truthy(a.replace_all)
        THEN Send(Request("PUT", url, airtable_get_headers, EmptyDict, data))
        ELSE Send(Request("PATCH", url, airtable_get_headers, EmptyDict, data))

bulk_defaults ==
    [base_id |-> Str("app1"), table_id_or_name |-> Str("t"),
     replace_all |-> PyBool("False")]

bulk_create_alts == [table_id_or_name |-> {Str("u")}]

bulk_update_alts == [replace_all |-> {PyBool("True")}, table_id_or_name |-> {Str("u")}]

\* {"fields": r} if "fields" not in r else r
formatted_record(r) == IF "fields" \notin DOMAIN r THEN [fields |-> r] ELSE r

airtable_bulk_create_records(a) ==
    LET formatted_records ==
            [i \in 1..Len(a.records.items) |-> formatted_record(a.records.items[i])]
        data == [records |-> Slice(formatted_records, BatchCeiling)]
    IN  IF airtable_get_headers_raises THEN Raise("ValueError")
        ELSE Send(Request("POST",
                          <<airtable_BASE_URL, "/", PyStr(a.base_id), "/",
                            PyStr(a.table_id_or_name)>>,
                          airtable_get_headers, EmptyDict, data))

airtable_bulk_update_records(a) ==
    LET data == [records |-> Slice(a.records.items, BatchCeiling)]
        url == <<airtable_BASE_URL, "/", PyStr(a.base_id), "/",
                 PyStr(a.table_id_or_name)>>
    IN  IF airtable_get_headers_raises THEN Raise("ValueError")
        ELSE IF Truthy(a.replace_all)
        THEN Send(Request("PUT", url, airtable_get_headers, EmptyDict, data))
        ELSE Send(Request("PATCH", url, airtable_get_headers, EmptyDict, data))

(***************************************************************************)
(* The transport and the life of one invocation                            *)
(***************************************************************************)
Adapters ==
    {"todoist", "tmdb", "gemini", "clickup", "gitlab", "abstract-api", "claude",
     "deepl", "mailchimp", "stripe", "linear", "huggingface", "airtable", "openai",
     "asana", "pinecone"}

\* os.getenv of the adapter's credential: unset, empty or a token
Credentials(ad) ==
    IF ad = "mailchimp" THEN MailchimpKeys
    ELSE IF ad = "deepl" THEN {None, Str(""), Str("tok"), Str("tok:fx")}
    ELSE {None, Str(""), Str("tok")}

\* the values of the second variable Pinecone reads from the environment
Environments(ad) == IF ad = "pinecone" THEN {None, Str(""), Str("env")} ELSE {None}

\* whether the adapter's module can be imported with this credential
Importable(ad, key) ==
    /\ ad = "claude" => ~claude_import_raises(key)
    /\ ad = "openai" => ~openai_import_raises(key)

Statuses == {200, 204, 302, 404, 500}

Bodies == {"b1", "b2"}

\* a check that takes only 4xx and 5xx for failures
raise_for_status_4xx(status) == status >= 400

\* Response.raise_for_status raises HTTPStatusError unless the status is 2xx
raise_for_status(status) == ~(status >= 200 /\ status <= 299)

\* a handler that catches the error and returns what it has gathered
Propagate_partial(status, body, bodies) == Success([results |-> bodies])

\* HTTPStatusError leaves the handler with the response's status and body;
\* bodies, the results the loop gathered before it, are dropped
Propagate(status, body, bodies) == Failure("HTTPStatusError", status, body)

\* a loop that stops after its first iteration
Rounds_single(t, a) == 1

\* the number of requests the handler's loop issues when none fails
Rounds(t, a) ==
    CASE t = "batch_generate" -> Len(a.prompts.items)
      [] t = "compare_responses" -> Len(a.models.items)
      [] OTHER -> 1

\* a loop that sends its first request again in every iteration
NextRequest_first(t, a, i) ==
    IF t = "batch_generate" THEN batch_generate_request(a, 1)
    ELSE compare_responses_request(a, 1)

\* the request of the loop's i-th iteration, for i > 1
NextRequest(t, a, i) ==
    IF t = "batch_generate" THEN batch_generate_request(a, i)
    ELSE compare_responses_request(a, i)

\* what the handler returns once every response was 2xx; bodies are the
\* response bodies in the order received
Shape(t, a, bodies) ==
    CASE t = "batch_generate" -> [results |-> bodies]
      [] t = "compare_responses" -> compare_responses_results(a, bodies)
      [] t = "delete_member" -> [success |-> TRUE, email |-> a.email_address]
      [] t = "delete_vectors" -> [status |-> "deleted"]
      [] t = "stream_generate" -> [stream |-> bodies[1]]
      [] t \in {"chat", "analyze_image"} -> JoinNewline(text_content(bodies[1]))
      [] t = "create_message" -> claude_json(bodies[1])
      [] t = "count_tokens" -> count_tokens_result(bodies[1])
      [] t = "generate_screenshot" -> generate_screenshot_result(a, bodies[1])
      [] t = "multi_turn_conversation" -> multi_turn_conversation_result(a, bodies[1])
      [] t = "text_to_image" -> text_to_image_result(bodies[1])
      [] t = "text_to_speech" -> b64encode(response_content(bodies[1]))
      [] t = "download_translated_document" ->
             download_translated_document_result(a, bodies[1])
      [] t = "convert_currency" ->
             convert_currency_result(a, exchange_rates_json(bodies[1]))
      [] OTHER -> [json |-> bodies[1]]

\* an invocation that has not started
IdleInv ==
    [pc |-> "idle", tool |-> "", args |-> EmptyDict, wire |-> <<>>,
     resp |-> NoResponse, step |-> 0, acc |-> <<>>, outcome |-> NoOutcome]

Init ==
    /\ adapter \in Adapters
    /\ cred \in Credentials(adapter)
    /\ PINECONE_ENVIRONMENT \in Environments(adapter)
    /\ Importable(adapter, cred)
    /\ default_models = <<Str("claude-3-5-sonnet-20241022"),
                          Str("claude-3-5-haiku-20241022")>>
    /\ peer = IdleInv
    /\ pc = "idle"
    /\ tool = ""
    /\ args = EmptyDict
    /\ wire = <<>>
    /\ resp = NoResponse
    /\ step = 0
    /\ acc = <<>>
    /\ outcome = NoOutcome

\* the handler of tool t runs with arguments a up to its first await
Start(ad, t, a, b) ==
    /\ pc = "idle"
    /\ adapter = ad
    /\ tool' = t
    /\ args' = a
    /\ acc' = <<>>
    /\ resp' = NoResponse
    /\ UNCHANGED <<adapter, cred, PINECONE_ENVIRONMENT, default_models, peer>>
    /\ IF b.error = ""
       THEN /\ pc' = "awaiting"
            /\ wire' = <<b.request>>
            /\ step' = 1
            /\ outcome' = NoOutcome
       ELSE IF b.error = "return"
       THEN /\ pc' = "done"
            /\ wire' = <<>>
            /\ step' = 0
            /\ outcome' = Success(b.value)
       ELSE /\ pc' = "failed"
            /\ wire' = <<>>
            /\ step' = 0
            /\ outcome' = Failure(b.error, 0, "")

create_task == \E a \in Calls(create_task_defaults, create_task_alts) :
    Start("todoist", "create_task", a, todoist_create_task(a))

list_comments == \E a \in Calls(list_comments_defaults, list_comments_alts) :
    Start("todoist", "list_comments", a, todoist_list_comments(a))

create_comment == \E a \in Calls(create_comment_defaults, create_comment_alts) :
    Start("todoist", "create_comment", a, todoist_create_comment(a))

search_movies == \E a \in Calls(search_movies_defaults, search_movies_alts) :
    Start("tmdb", "search_movies", a, tmdb_search_movies(a))

generate_text == \E a \in Calls(generate_text_defaults, generate_text_alts) :
    Start("gemini", "generate_text", a, gemini_generate_text(a))

batch_generate ==
    \E c \in Calls(batch_generate_defaults, batch_generate_alts), ps \in PromptLists :
        LET a == Put(c, "prompts", ListOf(ps))
        IN  Start("gemini", "batch_generate", a, gemini_batch_generate(a))

list_lists == \E a \in Calls(list_lists_defaults, list_lists_alts) :
    Start("clickup", "list_lists", a, clickup_list_lists(a))

update_task == \E a \in Calls(update_task_defaults, update_task_alts) :
    Start("clickup", "update_task", a, clickup_update_task(a))

list_issues == \E a \in Calls(list_issues_defaults, list_issues_alts) :
    Start("gitlab", "list_issues", a, gitlab_list_issues(a))

get_timezone == \E a \in Calls(get_timezone_defaults, get_timezone_alts) :
    Start("abstract-api", "get_timezone", a, abstract_get_timezone(a))

convert_currency == \E a \in Calls(convert_currency_defaults, convert_currency_alts) :
    Start("abstract-api", "convert_currency", a, abstract_convert_currency(a))

compare_responses ==
    \E c \in Calls(compare_responses_defaults, compare_responses_alts),
       ms \in ModelLists \cup {default_models} :
        LET a == Put(c, "models", ListOf(ms))
        IN  Start("claude", "compare_responses", a, claude_compare_responses(a))

get_model_info == \E a \in Calls(get_model_info_defaults, get_model_info_alts) :
    Start("claude", "get_model_info", a, claude_get_model_info(a))

translate_document ==
    \E a \in Calls(translate_document_defaults, translate_document_alts) :
        Start("deepl", "translate_document", a, deepl_translate_document(a))

list_audiences == \E a \in Calls(list_audiences_defaults, list_audiences_alts) :
    Start("mailchimp", "list_audiences", a, mailchimp_list_audiences(a))

delete_member == \E a \in Calls(delete_member_defaults, delete_member_alts) :
    Start("mailchimp", "delete_member", a, mailchimp_delete_member(a))

list_customers == \E a \in Calls(list_customers_defaults, list_customers_alts) :
    Start("stripe", "list_customers", a, stripe_list_customers(a))

list_labels == \E a \in Calls(list_labels_defaults, list_labels_alts) :
    Start("linear", "list_labels", a, linear_list_labels(a))

image_to_text == \E a \in Calls(image_to_text_defaults, image_to_text_alts) :
    Start("huggingface", "image_to_text", a, huggingface_image_to_text(a))

update_record == \E a \in Calls(update_record_defaults, update_record_alts) :
    Start("airtable", "update_record", a, airtable_update_record(a))

bulk_create_records ==
    \E c \in Calls(bulk_defaults, bulk_create_alts), rs \in RecordLists :
        LET a == Put(c, "records", ListOf(rs))
        IN  Start("airtable", "bulk_create_records", a, airtable_bulk_create_records(a))

bulk_update_records ==
    \E c \in Calls(bulk_defaults, bulk_update_alts), rs \in RecordLists :
        LET a == Put(c, "records", ListOf(rs))
        IN  Start("airtable", "bulk_update_records", a, airtable_bulk_update_records(a))

create_message == \E a \in Calls(create_message_defaults, create_message_alts) :
    Start("claude", "create_message", a, claude_create_message(a))

chat == \E a \in Calls(chat_defaults, chat_alts) :
    Start("claude", "chat", a, claude_chat(a))

analyze_image == \E a \in Calls(analyze_image_defaults, analyze_image_alts) :
    Start("claude", "analyze_image", a, claude_analyze_image(a))

get_project == \E a \in Calls(get_project_defaults, get_project_alts) :
    Start("gitlab", "get_project", a, gitlab_get_project(a))

get_commit == \E a \in Calls(get_commit_defaults, get_commit_alts) :
    Start("gitlab", "get_commit", a, gitlab_get_commit(a))

search_code == \E a \in Calls(search_code_defaults, search_code_alts) :
    Start("gitlab", "search_code", a, gitlab_search_code(a))

list_projects == \E a \in Calls(list_projects_defaults, list_projects_alts) :
    Start("gitlab", "list_projects", a, gitlab_list_projects(a))

download_translated_document ==
    \E a \in Calls(download_translated_document_defaults,
                   download_translated_document_alts) :
        Start("deepl", "download_translated_document", a,
              deepl_download_translated_document(a))

text_to_image == \E a \in Calls(text_to_image_defaults, text_to_image_alts) :
    Start("huggingface", "text_to_image", a, huggingface_text_to_image(a))

text_to_speech == \E a \in Calls(text_to_speech_defaults, text_to_speech_alts) :
    Start("openai", "text_to_speech", a, openai_text_to_speech(a))

list_records == \E a \in Calls(list_records_defaults, list_records_alts) :
    Start("airtable", "list_records", a, airtable_list_records(a))

search_records == \E a \in Calls(search_records_defaults, search_records_alts) :
    Start("airtable", "search_records", a, airtable_search_records(a))

update_task_asana == \E a \in Calls(asana_update_task_defaults, asana_update_task_alts) :
    Start("asana", "asana_update_task", a, asana_update_task(a))

delete_vectors == \E a \in Calls(delete_vectors_defaults, delete_vectors_alts) :
    Start("pinecone", "delete_vectors", a, pinecone_delete_vectors(a))

query_vectors == \E a \in Calls(query_vectors_defaults, query_vectors_alts) :
    Start("pinecone", "query_vectors", a, pinecone_query_vectors(a))

list_issues_linear ==
    \E a \in Calls(linear_list_issues_defaults, linear_list_issues_alts) :
        Start("linear", "linear_list_issues", a, linear_list_issues(a))

update_issue == \E a \in Calls(update_issue_defaults, update_issue_alts) :
    Start("linear", "update_issue", a, linear_update_issue(a))

list_projects_linear == \E a \in Calls(linear_list_projects_defaults, list_labels_alts) :
    Start("linear", "linear_list_projects", a, linear_list_projects(a))

list_cycles == \E a \in Calls(list_cycles_defaults, list_labels_alts) :
    Start("linear", "list_cycles", a, linear_list_cycles(a))

list_milestones == \E a \in Calls(list_milestones_defaults, list_milestones_alts) :
    Start("linear", "list_milestones", a, linear_list_milestones(a))

create_issue == \E a \in Calls(create_issue_defaults, create_issue_alts) :
    Start("linear", "create_issue", a, linear_create_issue(a))

add_comment == \E a \in Calls(add_comment_defaults, add_comment_alts) :
    Start("linear", "add_comment", a, linear_add_comment(a))

search_issues == \E a \in Calls(search_issues_defaults, search_issues_alts) :
    Start("linear", "search_issues", a, linear_search_issues(a))

count_tokens_gemini ==
    \E a \in Calls(gemini_count_tokens_defaults, gemini_model_alts) :
        Start("gemini", "gemini_count_tokens", a, gemini_count_tokens(a))

stream_generate == \E a \in Calls(stream_generate_defaults, batch_generate_alts) :
    Start("gemini", "stream_generate", a, gemini_stream_generate(a))

embed_text == \E a \in Calls(embed_text_defaults, embed_text_alts) :
    Start("gemini", "embed_text", a, gemini_embed_text(a))

multi_turn_conversation ==
    \E c \in Calls(multi_turn_conversation_defaults, multi_turn_conversation_alts),
       h \in Histories :
        LET a == Put(c, "conversation_history", ListOf(h))
        IN  Start("claude", "multi_turn_conversation", a, claude_multi_turn_conversation(a))

generate_screenshot ==
    \E a \in Calls(generate_screenshot_defaults, generate_screenshot_alts) :
        Start("abstract-api", "generate_screenshot", a, abstract_generate_screenshot(a))

count_tokens == \E a \in Calls(count_tokens_defaults, count_tokens_alts) :
    Start("claude", "count_tokens", a, claude_count_tokens(a))

\* the provider answers the request in flight and the handler runs on: it
\* raises on a non-2xx status, else issues its loop's next request or returns
Respond ==
    /\ pc = "awaiting"
    /\ \E status \in Statuses, body \in Bodies :
         /\ resp' = Response(status, body)
         /\ IF raise_for_status(status)
            THEN /\ pc' = "failed"
                 /\ outcome' = Propagate(status, body, acc)
                 /\ acc' = <<>>
                 /\ UNCHANGED <<wire, step>>
            ELSE IF step < Rounds(tool, args)
            THEN /\ pc' = "awaiting"
                 /\ acc' = Append(acc, body)
                 /\ wire' = Append(wire, NextRequest(tool, args, step + 1))
                 /\ step' = step + 1
                 /\ UNCHANGED outcome
            ELSE /\ pc' = "done"
                 /\ outcome' = Success(Shape(tool, args, Append(acc, body)))
                 /\ acc' = <<>>
                 /\ UNCHANGED <<wire, step>>
    /\ UNCHANGED <<adapter, cred, PINECONE_ENVIRONMENT, default_models, peer, tool, args>>

\* the round trip exceeds the client's timeout and the exception propagates
Timeout ==
    /\ pc = "awaiting"
    /\ pc' = "failed"
    /\ outcome' = Failure("TimeoutException", 0, "")
    /\ acc' = <<>>
    /\ UNCHANGED <<adapter, cred, PINECONE_ENVIRONMENT, default_models,
                  peer, tool, args, wire, resp, step>>

\* a delivery that keeps the arguments of the call for the next one
Finish_keeps ==
    /\ pc \in {"done", "failed"}
    /\ pc' = "idle"
    /\ tool' = ""
    /\ wire' = <<>>
    /\ resp' = NoResponse
    /\ step' = 0
    /\ acc' = <<>>
    /\ outcome' = NoOutcome
    /\ UNCHANGED <<adapter, cred, PINECONE_ENVIRONMENT, default_models, peer, args>>

\* the result or the error reaches the caller; nothing of the call is kept
Finish ==
    /\ pc \in {"done", "failed"}
    /\ pc' = "idle"
    /\ tool' = ""
    /\ args' = EmptyDict
    /\ wire' = <<>>
    /\ resp' = NoResponse
    /\ step' = 0
    /\ acc' = <<>>
    /\ outcome' = NoOutcome
    /\ UNCHANGED <<adapter, cred, PINECONE_ENVIRONMENT, default_models, peer>>

Next ==
    \/ create_task
    \/ list_comments
    \/ create_comment
    \/ search_movies
    \/ generate_text
    \/ batch_generate
    \/ count_tokens_gemini
    \/ stream_generate
    \/ embed_text
    \/ list_lists
    \/ update_task
    \/ update_task_asana
    \/ delete_vectors
    \/ query_vectors
    \/ list_issues
    \/ list_projects
    \/ get_project
    \/ get_commit
    \/ search_code
    \/ get_timezone
    \/ generate_screenshot
    \/ convert_currency
    \/ compare_responses
    \/ multi_turn_conversation
    \/ count_tokens
    \/ get_model_info
    \/ create_message
    \/ chat
    \/ analyze_image
    \/ translate_document
    \/ download_translated_document
    \/ list_audiences
    \/ delete_member
    \/ list_customers
    \/ list_labels
    \/ list_issues_linear
    \/ update_issue
    \/ list_projects_linear
    \/ list_cycles
    \/ list_milestones
    \/ create_issue
    \/ add_comment
    \/ search_issues
    \/ image_to_text
    \/ text_to_image
    \/ text_to_speech
    \/ update_record
    \/ list_records
    \/ search_records
    \/ bulk_create_records
    \/ bulk_update_records
    \/ Respond
    \/ Timeout
    \/ Finish

Spec == Init /\ [][Next]_vars

\* every client is built with a timeout, so a request in flight is
\* eventually answered or timed out
SpecLive == Init /\ [][Next]_vars /\ WF_vars(Respond \/ Timeout)

(***************************************************************************)
(* Two invocations in one process.  The second one, peer, is a record of   *)
(* the same fields as the variables of the first and takes the same steps; *)
(* it is kept once it has ended, so that what it sent and returned can be  *)
(* compared with the first.                                                *)
(***************************************************************************)
\* the tools the pair of invocations is run with
ConcTools ==
    {"search_movies", "compare_responses", "get_model_info", "chat", "convert_currency"}

\* the adapter a tool belongs to
ToolAdapter(t) ==
    CASE t = "search_movies" -> "tmdb"
      [] t = "convert_currency" -> "abstract-api"
      [] OTHER -> "claude"

\* the calls the pair is run with; compare_responses is called without
\* models, which binds the parameter to the default list, or with a list
ConcCalls(t) ==
    CASE t = "search_movies" -> Calls(search_movies_defaults, [year |-> OptInt])
      [] t = "compare_responses" ->
             { Put(c, "models", ListOf(ms)) :
                 c \in Calls(compare_responses_defaults, [system |-> {Str("x")}]),
                 ms \in {default_models, <<Str("claude-3-5-haiku-20241022")>>} }
      [] t = "get_model_info" -> Calls(get_model_info_defaults, get_model_info_alts)
      [] t = "chat" -> Calls(chat_defaults, [system |-> {Str("x")}])
      [] OTHER -> Calls(convert_currency_defaults, [target |-> {Str("JPY")}])

\* the handler of tool t run with arguments a up to its first await
Build(t, a) ==
    CASE t = "search_movies" -> tmdb_search_movies(a)
      [] t = "compare_responses" -> claude_compare_responses(a)
      [] t = "get_model_info" -> claude_get_model_info(a)
      [] t = "chat" -> claude_chat(a)
      [] OTHER -> abstract_convert_currency(a)

\* the invocation after the handler ran up to its first await
StartInv(t, a, b) ==
    IF b.error = ""
    THEN [pc |-> "awaiting", tool |-> t, args |-> a, wire |-> <<b.request>>,
          resp |-> NoResponse, step |-> 1, acc |-> <<>>, outcome |-> NoOutcome]
    ELSE IF b.error = "return"
    THEN [pc |-> "done", tool |-> t, args |-> a, wire |-> <<>>,
          resp |-> NoResponse, step |-> 0, acc |-> <<>>, outcome |-> Success(b.value)]
    ELSE [pc |-> "failed", tool |-> t, args |-> a, wire |-> <<>>,
          resp |-> NoResponse, step |-> 0, acc |-> <<>>,
          outcome |-> Failure(b.error, 0, "")]

\* the invocation after its request in flight was answered
RespondInv(inv, status, body) ==
    IF raise_for_status(status)
    THEN [inv EXCEPT !.resp = Response(status, body), !.pc = "failed",
                     !.outcome = Propagate(status, body, inv.acc), !.acc = <<>>]
    ELSE IF inv.step < Rounds(inv.tool, inv.args)
    THEN [inv EXCEPT !.resp = Response(status, body), !.acc = Append(inv.acc, body),
                     !.wire = Append(inv.wire,
                                     NextRequest(inv.tool, inv.args, inv.step + 1)),
                     !.step = inv.step + 1]
    ELSE [inv EXCEPT !.resp = Response(status, body), !.pc = "done",
                     !.outcome = Success(Shape(inv.tool, inv.args,
                                               Append(inv.acc, body))),
                     !.acc = <<>>]

\* the first invocation starts while the second is anywhere in its life
Invoke ==
    \E t \in ConcTools :
        /\ ToolAdapter(t) = adapter
        /\ \E a \in ConcCalls(t) : Start(adapter, t, a, Build(t, a))

\* the second invocation starts
PeerInvoke ==
    /\ peer.pc = "idle"
    /\ \E t \in ConcTools :
          /\ ToolAdapter(t) = adapter
          /\ \E a \in ConcCalls(t) : peer' = StartInv(t, a, Build(t, a))
    /\ UNCHANGED <<adapter, cred, PINECONE_ENVIRONMENT, default_models,
                  pc, tool, args, wire, resp, step,
                   acc, outcome>>

\* the provider answers the second invocation's request
PeerRespond ==
    /\ peer.pc = "awaiting"
    /\ \E status \in Statuses, body \in Bodies : peer' = RespondInv(peer, status, body)
    /\ UNCHANGED <<adapter, cred, PINECONE_ENVIRONMENT, default_models,
                  pc, tool, args, wire, resp, step,
                   acc, outcome>>

\* the second invocation's round trip times out
PeerTimeout ==
    /\ peer.pc = "awaiting"
    /\ peer' = [peer EXCEPT !.pc = "failed",
                            !.outcome = Failure("TimeoutException", 0, ""),
                            !.acc = <<>>]
    /\ UNCHANGED <<adapter, cred, PINECONE_ENVIRONMENT, default_models,
                  pc, tool, args, wire, resp, step,
                   acc, outcome>>

NextConc ==
    \/ Invoke
    \/ Respond
    \/ Timeout
    \/ Finish
    \/ PeerInvoke
    \/ PeerRespond
    \/ PeerTimeout

SpecConc == Init /\ [][NextConc]_vars

(***************************************************************************)
(* What a request puts on the wire                                         *)
(***************************************************************************)
\* the declared defaults of the tool's parameters
Defaults(t) ==
    CASE t = "create_task" -> create_task_defaults
      [] t = "list_comments" -> list_comments_defaults
      [] t = "create_comment" -> create_comment_defaults
      [] t = "search_movies" -> search_movies_defaults
      [] t = "generate_text" -> generate_text_defaults
      [] t = "batch_generate" -> batch_generate_defaults
      [] t = "list_lists" -> list_lists_defaults
      [] t = "update_task" -> update_task_defaults
      [] t = "asana_update_task" -> asana_update_task_defaults
      [] t = "delete_vectors" -> delete_vectors_defaults
      [] t = "query_vectors" -> query_vectors_defaults
      [] t = "list_issues" -> list_issues_defaults
      [] t = "list_projects" -> list_projects_defaults
      [] t = "get_project" -> get_project_defaults
      [] t = "get_commit" -> get_commit_defaults
      [] t = "search_code" -> search_code_defaults
      [] t = "get_timezone" -> get_timezone_defaults
      [] t = "convert_currency" -> convert_currency_defaults
      [] t = "generate_screenshot" -> generate_screenshot_defaults
      [] t = "compare_responses" -> compare_responses_defaults
      [] t = "multi_turn_conversation" -> multi_turn_conversation_defaults
      [] t = "count_tokens" -> count_tokens_defaults
      [] t = "get_model_info" -> get_model_info_defaults
      [] t = "create_message" -> create_message_defaults
      [] t = "chat" -> chat_defaults
      [] t = "analyze_image" -> analyze_image_defaults
      [] t = "translate_document" -> translate_document_defaults
      [] t = "download_translated_document" -> download_translated_document_defaults
      [] t = "list_audiences" -> list_audiences_defaults
      [] t = "delete_member" -> delete_member_defaults
      [] t = "list_customers" -> list_customers_defaults
      [] t = "list_labels" -> list_labels_defaults
      [] t = "linear_list_issues" -> linear_list_issues_defaults
      [] t = "update_issue" -> update_issue_defaults
      [] t = "linear_list_projects" -> linear_list_projects_defaults
      [] t = "list_cycles" -> list_cycles_defaults
      [] t = "list_milestones" -> list_milestones_defaults
      [] t = "gemini_count_tokens" -> gemini_count_tokens_defaults
      [] t = "stream_generate" -> stream_generate_defaults
      [] t = "embed_text" -> embed_text_defaults
      [] t = "create_issue" -> create_issue_defaults
      [] t = "add_comment" -> add_comment_defaults
      [] t = "search_issues" -> search_issues_defaults
      [] t = "image_to_text" -> image_to_text_defaults
      [] t = "text_to_image" -> text_to_image_defaults
      [] t = "text_to_speech" -> text_to_speech_defaults
      [] t = "update_record" -> update_record_defaults
      [] t = "list_records" -> list_records_defaults
      [] t = "search_records" -> search_records_defaults
      [] OTHER -> bulk_defaults

\* the optional parameters of the tool: those whose default is None
Optional(t) == {p \in DOMAIN Defaults(t) : IsNone(Defaults(t)[p])}

\* the key under which the provider's API takes the parameter
WireKey(t, p) ==
    CASE p = "top_p" -> "topP"
      [] p = "top_k" -> "topK"
      [] p = "delete_all" -> "deleteAll"
      [] p = "include_values" -> "includeValues"
      [] p = "include_metadata" -> "includeMetadata"
      [] p = "max_output_tokens" -> "maxOutputTokens"
      [] p = "system_instruction" -> "systemInstruction"
      [] t \in {"list_labels", "linear_list_projects", "list_cycles"} /\ p = "team_id"
             -> "filter"
      [] t = "list_milestones" /\ p = "project_id" -> "filter"
      [] t = "linear_list_issues" /\ p \in {"team_id", "project_id", "assignee_id"}
             -> CASE p = "team_id" -> "team" [] p = "project_id" -> "project"
                  [] OTHER -> "assignee"
      [] t = "linear_list_issues" /\ p = "label_id" -> "labels"
      [] t = "update_issue" /\ p = "state_id" -> "stateId"
      [] t \in {"update_issue", "create_issue"} /\ p = "assignee_id" -> "assigneeId"
      [] t = "create_issue" /\ p = "project_id" -> "projectId"
      [] t = "create_issue" /\ p = "label_ids" -> "labelIds"
      [] p = "fields" -> "fields[]"
      [] p = "filter_by_formula" -> "filterByFormula"
      [] p = "max_records" -> "maxRecords"
      [] p = "page_size" -> "pageSize"
      [] p = "sort" -> "sort[0][field]"
      [] OTHER -> p

\* the keys of a URL's query string: the pieces in front of an "="
QueryKeys(url) == {url[i] : i \in {j \in 1..Len(url) : j < Len(url) /\ url[j + 1] = "="}}

\* the argument names of a GraphQL document: the pieces in front of a ":"
GraphQLKeys(g) == {g[i] : i \in {j \in 1..Len(g) : j < Len(g) /\ g[j + 1] = ":"}}

\* every key the request sends: query string, params, JSON body (with the
\* keys of the nested generationConfig, parameters and data) and GraphQL text
SentKeys(r) ==
    QueryKeys(r.url) \cup DOMAIN r.params \cup DOMAIN r.json \cup GraphQLKeys(r.graphql)
    \cup (IF "generationConfig" \in DOMAIN r.json
          THEN DOMAIN r.json.generationConfig ELSE {})
    \cup (IF "parameters" \in DOMAIN r.json THEN DOMAIN r.json.parameters ELSE {})
    \cup (IF "data" \in DOMAIN r.json THEN DOMAIN r.json.data ELSE {})

\* the value the request sends under key k of its params or JSON body
SentValue(r, k) ==
    IF k \in DOMAIN r.params THEN r.params[k]
    ELSE IF k \in DOMAIN r.json THEN r.json[k]
    ELSE IF "parameters" \in DOMAIN r.json THEN r.json.parameters[k]
    ELSE IF "data" \in DOMAIN r.json THEN r.json.data[k]
    ELSE r.json.generationConfig[k]

\* the text the URL's query string sends for key k
QueryValue(url, k) ==
    url[(CHOOSE j \in 1..Len(url) : url[j] = k /\ j < Len(url) /\ url[j + 1] = "=") + 2]

(***************************************************************************)
(* Claims                                                                  *)
(***************************************************************************)
\* C1: in every request of every tool, an optional parameter the caller left
\* at None has no key in the query string, params, JSON body or GraphQL
\* text, so it is sent neither as null nor as an empty value.
C1_OmittedParamsAbsent ==
    \A i \in 1..Len(wire) : \A p \in Optional(tool) :
        IsNone(args[p]) => WireKey(tool, p) \notin SentKeys(wire[i])

\* C1 witness: search_movies called without year sends its query and no year
C1_Witness ==
    /\ pc = "awaiting"
    /\ tool = "search_movies"
    /\ IsNone(args.year)
    /\ "query" \in QueryKeys(wire[1].url)
    /\ "year" \notin QueryKeys(wire[1].url)

\* C2: in every request of every tool, an optional parameter the caller
\* supplied with a falsy value (0, False, "", []) is sent under its key
\* with that value.
C2_FalsySuppliedIsSent ==
    \A i \in 1..Len(wire) : \A p \in Optional(tool) :
        (~IsNone(args[p]) /\ ~Truthy(args[p])) =>
            /\ WireKey(tool, p) \in SentKeys(wire[i])
            /\ WireKey(tool, p) \in QueryKeys(wire[i].url)
                  => QueryValue(wire[i].url, WireKey(tool, p)) = PyStr(args[p])
            /\ WireKey(tool, p) \notin QueryKeys(wire[i].url)
                  => SentValue(wire[i], WireKey(tool, p)) = args[p]

\* the call ended, in a result or in an error
Terminal == pc \in {"done", "failed"}

\* the call failed in credential or parameter validation
ValidationFailed == pc = "failed" /\ outcome.error \in {"ValueError", "TypeError"}

C4_Non2xxFails ==
    (resp # NoResponse /\ ~(resp.status \in 200..299)) =>
        /\ pc = "failed"
        /\ outcome.kind = "error"
        /\ outcome.error = "HTTPStatusError"
        /\ outcome.status = resp.status
        /\ outcome.body = resp.body
        /\ DOMAIN outcome.value = {}

\* C4 witness: delete_member got a redirect and failed with it
C4_Witness ==
    /\ tool = "delete_member"
    /\ resp.status = 302
    /\ pc = "failed"
    /\ outcome.status = 302

\* the tools that send the adapter's credential
NeedsCredential(t) == t \notin {"", "translate_document", "get_model_info"}

\* C5: while the adapter's credential is absent from the environment, no
\* invocation of a tool that needs it issues a request, and such an
\* invocation ends in a configuration error.
C5_NoRequestWithoutCredential ==
    (IsNone(cred) /\ NeedsCredential(tool)) =>
        /\ wire = <<>>
        /\ pc # "awaiting"
        /\ pc = "failed" => outcome.error = "ValueError"

\* the call supplies neither of the tool's two alternatives
NeitherSupplied ==
    CASE tool = "get_timezone" ->
            IsNone(args.location) /\ (IsNone(args.latitude) \/ IsNone(args.longitude))
      [] tool = "list_lists" -> IsNone(args.folder_id) /\ IsNone(args.space_id)
      [] tool \in {"list_comments", "create_comment"} ->
            IsNone(args.task_id) /\ IsNone(args.project_id)
      [] OTHER -> FALSE

\* C6: an invocation of get_timezone, list_lists, list_comments or
\* create_comment that supplies neither alternative issues no request and
\* fails with a validation error.
C6_NeitherAlternativeRaises ==
    NeitherSupplied =>
        /\ wire = <<>>
        /\ pc = "failed"
        /\ outcome.error \in {"ValueError", "TypeError"}

\* C7: an invocation that ended has either a result or an error, never a
\* mixture: a failed one returns no value, so none of the responses that
\* batch_generate or compare_responses gathered before the failing
\* sub-request reaches the caller, and one that returned carries a result
\* for every prompt or model.
C7_NoPartialSuccess ==
    /\ Terminal <=> outcome.kind # "none"
    /\ pc = "failed" => (outcome.kind = "error" /\ DOMAIN outcome.value = {})
    /\ pc = "done" => (outcome.kind = "ok" /\ outcome.error = "")
    /\ (pc = "done" /\ tool = "batch_generate") =>
          Len(outcome.value.results) = Len(args.prompts.items)
    /\ (pc = "done" /\ tool = "compare_responses") =>
          DOMAIN outcome.value =
              {PyStr(args.models.items[i]) : i \in 1..Len(args.models.items)}

\* C7 witness: batch_generate failed on a later sub-request, after an
\* earlier one had succeeded
C7_Witness ==
    /\ pc = "failed"
    /\ tool = "batch_generate"
    /\ step > 1
    /\ outcome.error = "HTTPStatusError"

\* the characters of cs after its last "-"
AfterLastDash(cs) ==
    LET last == CHOOSE i \in 1..Len(cs) :
                   cs[i] = "-" /\ \A j \in (i + 1)..Len(cs) : cs[j] # "-"
    IN  [k \in 1..(Len(cs) - last) |-> cs[last + k]]

\* C8: every Mailchimp request goes to the host "https://" + dc +
\* ".api.mailchimp.com/3.0" where dc is the part of the API key after its
\* last "-"; with the key unset or without a "-", every Mailchimp tool
\* raises the configuration error and issues no request.
C8_DataCenterFromKey ==
    adapter = "mailchimp" =>
        /\ \A i \in 1..Len(wire) :
              /\ Truthy(cred)
              /\ Contains(cred.chars, "-")
              /\ LET dc == AfterLastDash(cred.chars)
                 IN  SubSeq(wire[i].url, 1, Len(dc) + 2) =
                        <<"https://">> \o dc \o <<".api.mailchimp.com/3.0">>
        /\ ((IsNone(cred) \/ ~Contains(cred.chars, "-")) /\ tool # "") =>
              /\ wire = <<>>
              /\ pc = "failed"
              /\ outcome.error = "ValueError"

\* C8 witness: a request went out under a key with two "-"
C8_Witness ==
    /\ adapter = "mailchimp"
    /\ pc = "awaiting"
    /\ Len(cred.chars) = 3
    /\ cred.chars[1] = "-"
    /\ cred.chars[2] = "-"
    /\ cred.chars[3] = "5"

\* the smaller of two numbers
Min(x, y) == IF x < y THEN x ELSE y

\* C9: the body of bulk_create_records and bulk_update_records carries
\* min(n, 10) records, the i-th of them being the caller's i-th record
\* (wrapped as {"fields": record} by bulk_create_records when it has no
\* "fields" key); the number of records never makes the call raise.
C9_BulkCeiling ==
    tool \in {"bulk_create_records", "bulk_update_records"} =>
        /\ \A i \in 1..Len(wire) :
              LET sent == wire[i].json.records
                  given == args.records.items
              IN  /\ Len(sent) = Min(Len(given), 10)
                  /\ \A k \in 1..Len(sent) :
                        IF tool = "bulk_create_records" /\ "fields" \notin DOMAIN given[k]
                        THEN sent[k] = [fields |-> given[k]]
                        ELSE sent[k] = given[k]
        /\ Truthy(cred) => (pc # "idle" /\ ~ValidationFailed)

\* C9 witness: a bulk call with more than 10 records sent 10 of them
C9_Witness ==
    /\ tool \in {"bulk_create_records", "bulk_update_records"}
    /\ pc = "awaiting"
    /\ Len(args.records.items) > 10
    /\ Len(wire[1].json.records) = 10

\* the request update_record or bulk_update_records builds for arguments a
UpdateRequest(t, a) ==
    IF t = "update_record" THEN airtable_update_record(a).request
    ELSE airtable_bulk_update_records(a).request

\* C10: update_record and bulk_update_records issue PUT when replace_all is
\* True and PATCH when it is False, whatever the fields or records, and the
\* same call with the flag inverted has the same URL and body.
C10_VerbFromReplaceAll ==
    tool \in {"update_record", "bulk_update_records"} =>
        \A i \in 1..Len(wire) :
            LET flipped == Put(args, "replace_all",
                               IF args.replace_all = PyBool("True")
                               THEN PyBool("False") ELSE PyBool("True"))
                other == UpdateRequest(tool, flipped)
            IN  /\ args.replace_all = PyBool("True") => wire[i].method = "PUT"
                /\ args.replace_all = PyBool("False") => wire[i].method = "PATCH"
                /\ other.url = wire[i].url
                /\ other.json = wire[i].json
                /\ other.method # wire[i].method

\* C10 witness: update_record with replace_all=True issued a PUT
C10_Witness ==
    /\ tool = "update_record"
    /\ pc = "awaiting"
    /\ args.replace_all = PyBool("True")
    /\ wire[1].method = "PUT"

TextBlockIndex(blocks, j) ==
    CHOOSE i \in 1..Len(blocks) :
        /\ blocks[i].type = "text"
        /\ Cardinality({k \in 1..i : blocks[k].type = "text"}) = j

\* C12: chat and analyze_image return the texts of exactly the response's
\* blocks of type "text", in their order, with one newline between two
\* consecutive texts and nothing of the other blocks; create_message returns
\* the decoded response as it came.
C12_TextBlocksJoined ==
    /\ (pc = "done" /\ tool \in {"chat", "analyze_image"}) =>
          LET blocks == Content(resp.body)
              n == Cardinality({k \in 1..Len(blocks) : blocks[k].type = "text"})
              out == outcome.value
          IN  /\ Len(out) = IF n = 0 THEN 0 ELSE 2 * n - 1
              /\ \A j \in 1..n : out[2 * j - 1] = blocks[TextBlockIndex(blocks, j)].text
              /\ \A j \in 1..(n - 1) : out[2 * j] = "\n"
    /\ (pc = "done" /\ tool = "create_message") => outcome.value = claude_json(resp.body)

\* C12 witness: chat returned the two texts of a response that has a block
\* of another type between them
C12_Witness ==
    /\ pc = "done"
    /\ tool = "chat"
    /\ Len(Content(resp.body)) = 3
    /\ Content(resp.body)[2].type = "image"
    /\ outcome.value = <<"A", "\n", "B">>

\* the identifier percent-encoded once, "/" included
EncodedOnce(s) ==
    CASE s = "a/b" -> "a%2Fb"
      [] s = "feature/x" -> "feature%2Fx"
      [] OTHER -> s

\* the piece of the URL that follows the piece mark
PieceAfter(url, mark) == url[(CHOOSE j \in 1..(Len(url) - 1) : url[j] = mark) + 1]

GitLabTools == {"list_issues", "get_project", "get_commit", "search_code"}

\* C13: every request of a GitLab tool carries the caller's project_id (and
\* get_commit's sha) percent-encoded exactly once: as the path segment after
\* "/projects/" (after "/repository/commits/" for the sha), and, in
\* search_code, as the value of project_id in the query string.
C13_EncodedOnce ==
    (tool \in GitLabTools /\ Truthy(args.project_id)) =>
        \A i \in 1..Len(wire) :
            /\ tool # "search_code" =>
                  PieceAfter(wire[i].url, "/projects/") = EncodedOnce(PyStr(args.project_id))
            /\ tool = "get_commit" =>
                  PieceAfter(wire[i].url, "/repository/commits/") = EncodedOnce(PyStr(args.sha))
            /\ tool = "search_code" =>
                  httpx_urlencode(PyStr(wire[i].params.project_id)) =
                      EncodedOnce(PyStr(args.project_id))

\* the text the request's query string carries for key k, whether the
\* handler wrote it into the URL or gave it to the client as a params value
WireQueryText(r, k) ==
    IF k \in QueryKeys(r.url) THEN QueryValue(r.url, k)
    ELSE httpx_urlencode(primitive_value_to_str(r.params[k]))

\* C14: in every request of every tool, a boolean parameter that travels in
\* the query string is written there as "true" when it is True and as
\* "false" when it is False.
C14_LowercaseBooleans ==
    \A i \in 1..Len(wire) : \A p \in DOMAIN args :
        (args[p].t = "bool"
         /\ WireKey(tool, p) \in QueryKeys(wire[i].url) \cup DOMAIN wire[i].params) =>
            WireQueryText(wire[i], WireKey(tool, p)) =
                IF args[p].v = "True" THEN "true" ELSE "false"

\* base64 decoding of a text given by the alphabet indices of its characters
RECURSIVE b64decode(_)
b64decode(cs) ==
    IF Len(cs) < 4 THEN <<>>
    ELSE LET c1 == cs[1]
             c2 == cs[2]
             c3 == cs[3]
             c4 == cs[4]
             rest == b64decode(SubSeq(cs, 5, Len(cs)))
         IN  IF c3 = 64 THEN <<c1 * 4 + (c2 \div 16)>> \o rest
             ELSE IF c4 = 64
             THEN <<c1 * 4 + (c2 \div 16), (c2 % 16) * 16 + (c3 \div 4)>> \o rest
             ELSE <<c1 * 4 + (c2 \div 16), (c2 % 16) * 16 + (c3 \div 4),
                    (c3 % 4) * 64 + c4>> \o rest

\* the keys of a result that describe the payload without carrying it
MetadataKeys == {"format", "content_type", "success", "document_id", "size", "note"}

BinaryTools == {"text_to_image", "text_to_speech", "download_translated_document"}

\* C15: text_to_image, text_to_speech and download_translated_document
\* return the bytes of the response body in a text encoding that decodes
\* back to exactly those bytes, and never the body decoded as JSON.
C15_BinaryRoundTrip ==
    (pc = "done" /\ tool \in BinaryTools) =>
        IF tool = "text_to_speech"
        THEN b64decode(outcome.value) = response_content(resp.body)
        ELSE /\ "json" \notin DOMAIN outcome.value
             /\ \E k \in DOMAIN outcome.value \ MetadataKeys :
                    b64decode(outcome.value[k]) = response_content(resp.body)

\* the first invocation, as a record of the fields of the second
MainInv ==
    [pc |-> pc, tool |-> tool, args |-> args, wire |-> wire, resp |-> resp,
     step |-> step, acc |-> acc, outcome |-> outcome]

\* every request of the invocation is made of its own arguments
OwnRequest(inv) ==
    \A i \in 1..Len(inv.wire) :
        LET r == inv.wire[i]
            a == inv.args
        IN  CASE inv.tool = "search_movies" ->
                   /\ QueryKeys(r.url) =
                         {k \in {"query", "language", "page", "include_adult", "year"} :
                             ~IsNone(a[k])}
                         \cup (IF IsNone(cred) THEN {} ELSE {"api_key"})
                   /\ \A k \in QueryKeys(r.url) \ {"api_key"} :
                         QueryValue(r.url, k) = PyStr(a[k])
              [] inv.tool = "compare_responses" ->
                   /\ r.json.model = a.models.items[i]
                   /\ r.json.messages = a.prompt
                   /\ r.json.max_tokens = a.max_tokens
                   /\ "system" \in DOMAIN r.json => r.json.system = a.system
              [] inv.tool = "chat" ->
                   /\ r.json.model = a.model
                   /\ r.json.messages = a.prompt
                   /\ "system" \in DOMAIN r.json => r.json.system = a.system
              [] inv.tool = "convert_currency" ->
                   /\ r.params.base = a.base
                   /\ r.params.target = a.target
              [] OTHER -> TRUE

\* the result of the invocation is made of its own arguments and of the
\* response to its own request
OwnResult(inv) ==
    inv.pc = "done" =>
        CASE inv.tool = "search_movies" -> inv.outcome.value = [json |-> inv.resp.body]
          [] inv.tool = "compare_responses" ->
               DOMAIN inv.outcome.value =
                   {PyStr(inv.args.models.items[i]) : i \in 1..Len(inv.args.models.items)}
          [] inv.tool = "get_model_info" ->
               inv.outcome.value.model_id = PyStr(inv.args.model)
          [] inv.tool = "chat" ->
               inv.outcome.value = JoinNewline(text_content(inv.resp.body))
          [] inv.tool = "convert_currency" ->
               inv.outcome.value =
                   convert_currency_result(inv.args, exchange_rates_json(inv.resp.body))
          [] OTHER -> TRUE

Answered(inv) ==
    inv.pc \in {"done", "failed"} /\ inv.outcome.error # "TimeoutException"

SentFieldNames(r) ==
    IF "fields[]" \in DOMAIN r.params THEN {r.params["fields[]"]} ELSE {}

\* C18: a list_records or search_records call with a non-empty fields list
\* sends every name of the list, so the request asks for exactly the listed
\* fields, whatever the length of the list.
C18_AllFieldsSent ==
    (tool \in {"list_records", "search_records"} /\ Truthy(args.fields)) =>
        \A i \in 1..Len(wire) :
            SentFieldNames(wire[i]) =
                {args.fields.items[j] : j \in 1..Len(args.fields.items)}

\* C19: in every request of Asana update_task, assignee, due_on and
\* start_on are in the body with an explicit null when the caller passed
\* null for them, and are left out of the body when the caller did not
\* mention them.
C19_NullClearsField ==
    tool = "asana_update_task" =>
        \A i \in 1..Len(wire) : \A p \in {"assignee", "due_on", "start_on"} :
            /\ args[p] = PassedNone =>
                  (p \in DOMAIN wire[i].json.data /\ IsNone(wire[i].json.data[p]))
            /\ args[p] = None => p \notin DOMAIN wire[i].json.data

\* the selectors of the two Pinecone tools, as keys of the request body
Selectors(t) ==
    IF t = "delete_vectors" THEN {"ids", "deleteAll", "filter"} ELSE {"vector", "id"}

\* the call supplies no selector: every one is absent, empty or False
NoSelector ==
    IF tool = "delete_vectors"
    THEN ~Truthy(args.ids) /\ ~Truthy(args.delete_all) /\ ~Truthy(args.filter)
    ELSE ~Truthy(args.vector) /\ ~Truthy(args.id)

\* C20: every request body of Pinecone delete_vectors and query_vectors
\* carries exactly one selector (one of ids, deleteAll, filter; one of
\* vector, id); deleteAll is sent only when delete_all is True and no ids
\* were given; a call without a selector raises and issues no request.
C20_OneSelector ==
    tool \in {"delete_vectors", "query_vectors"} =>
        /\ \A i \in 1..Len(wire) :
              /\ Cardinality(DOMAIN wire[i].json \cap Selectors(tool)) = 1
              /\ "deleteAll" \in DOMAIN wire[i].json =>
                    /\ tool = "delete_vectors"
                    /\ args.delete_all = PyBool("True")
                    /\ (IsNone(args.ids) \/ args.ids.items = <<>>)
        /\ NoSelector =>
              /\ wire = <<>>
              /\ pc = "failed"
              /\ outcome.error = "ValueError"

\* C20 witness: delete_all=True came with a filter and the body carries
\* deleteAll alone
C20_Witness ==
    /\ tool = "delete_vectors"
    /\ pc = "awaiting"
    /\ Truthy(args.filter)
    /\ DOMAIN wire[1].json = {"namespace", "deleteAll"}

\* C21: compare_responses never has more than 3 requests issued; a models
\* list longer than 3 is rejected with ValueError and no request; otherwise
\* the i-th request issued names models[i], and a call that returns has
\* issued one request per element and its result has an entry for every
\* model of the list.
C21_AtMostThreeRequests ==
    tool = "compare_responses" =>
        /\ Len(wire) <= 3
        /\ Len(args.models.items) > 3 =>
              /\ wire = <<>>
              /\ pc = "failed"
              /\ outcome.error = "ValueError"
        /\ Len(args.models.items) <= 3 =>
              /\ Len(wire) <= Len(args.models.items)
              /\ \A i \in 1..Len(wire) : wire[i].json.model = args.models.items[i]
              /\ pc = "done" =>
                    /\ Len(wire) = Len(args.models.items)
                    /\ DOMAIN outcome.value =
                          {PyStr(args.models.items[i]) : i \in 1..Len(args.models.items)}

\* C21 witness: a comparison of three models, two of them different,
\* returned after three requests
C21_Witness ==
    /\ tool = "compare_responses"
    /\ pc = "done"
    /\ Len(args.models.items) = 3
    /\ args.models.items[1] # args.models.items[3]
    /\ Len(wire) = 3
    /\ Cardinality(DOMAIN outcome.value) = 2

\* the requests of batch_generate issued so far are those of the first
\* prompts, in order; all but the one in flight were answered with 2xx
BatchInOrder ==
    tool = "batch_generate" =>
        /\ Len(wire) <= Len(args.prompts.items)
        /\ \A i \in 1..Len(wire) : wire[i].json.contents = args.prompts.items[i]
        /\ pc = "awaiting" => Len(acc) = Len(wire) - 1
        /\ pc = "done" =>
              /\ Len(outcome.value.results) = Len(args.prompts.items)
              /\ Len(wire) = Len(args.prompts.items)

\* one step of a running batch_generate: a request is issued only on a 2xx
\* answer to the request in flight, the answer is stored at the index of the
\* request it answers, and the results returned are the answers in order
BatchStep ==
    (tool = "batch_generate" /\ tool' = "batch_generate") =>
        /\ wire' # wire =>
              /\ pc = "awaiting"
              /\ resp'.status \in 200..299
              /\ Len(wire') = Len(wire) + 1
              /\ acc' = Append(acc, resp'.body)
              /\ Len(acc') = Len(wire)
        /\ (pc = "awaiting" /\ ~(resp'.status \in 200..299)) =>
              (pc' = "failed" /\ wire' = wire)
        /\ pc = "failed" => wire' = wire
        /\ (pc = "awaiting" /\ pc' = "done") =>
              outcome'.value.results = Append(acc, resp'.body)

LoopTools == {"batch_generate", "compare_responses"}

LifecycleInv ==
    /\ pc \in {"idle", "awaiting", "done", "failed"}
    /\ pc = "idle" =>
          /\ tool = "" /\ args = EmptyDict /\ wire = <<>> /\ resp = NoResponse
          /\ step = 0 /\ acc = <<>> /\ outcome = NoOutcome
    /\ ValidationFailed => (step = 0 /\ wire = <<>> /\ resp = NoResponse)
    /\ pc = "awaiting" => (step >= 1 /\ outcome = NoOutcome)
    /\ step > 1 => tool \in LoopTools
    /\ pc = "done" => outcome.kind = "ok"
    /\ pc = "failed" => outcome.kind = "error"

\* the order of the phases: building ends in the first await or in the end
\* of the call, an await ends in shaping and then in the end of the call or,
\* in a loop, in the next await, and an ended call only goes back to idle
LifecycleStep ==
    /\ pc = "idle" =>
          /\ pc' \in {"awaiting", "done", "failed"}
          /\ IF pc' = "awaiting" THEN step' = 1 ELSE step' = 0
    /\ pc = "awaiting" =>
          /\ pc' \in {"awaiting", "done", "failed"}
          /\ tool' = tool /\ args' = args
          /\ pc' = "awaiting" =>
                (tool \in LoopTools /\ step' = step + 1 /\ resp'.status \in 200..299)
          /\ pc' = "done" => (step' = step /\ resp'.status \in 200..299)
          /\ pc' = "failed" =>
                (step' = step /\ outcome'.error \in {"HTTPStatusError", "TimeoutException"})
    /\ pc \in {"done", "failed"} => pc' = "idle"

ClauseTools ==
    {"linear_list_issues", "linear_list_projects", "list_cycles", "list_labels",
     "list_milestones", "update_issue"}

\* the optional parameters of the tool in the order of their declaration
Declared(t) ==
    CASE t = "linear_list_issues" ->
             <<"team_id", "project_id", "assignee_id", "label_id", "state">>
      [] t = "update_issue" ->
             <<"title", "description", "priority", "state_id", "assignee_id">>
      [] t = "list_milestones" -> <<"project_id">>
      [] OTHER -> <<"team_id">>

\* the value gets a clause: it is not None and, unless a number, not empty
Supplied(x) == IF x.t = "int" THEN TRUE ELSE Truthy(x)

\* the positions in document g of the clauses of the tool's optional values
ClauseAt(g) ==
    {j \in 1..Len(g) :
        /\ j < Len(g) /\ g[j + 1] = ":"
        /\ \E k \in 1..Len(Declared(tool)) : g[j] = WireKey(tool, Declared(tool)[k])}

\* the supplied optional parameters, in declaration order, as clause keys
ExpectedClauses ==
    LET d == Declared(tool)
        kept == SelectSeq(d, LAMBDA p : Supplied(args[p]))
    IN  [i \in 1..Len(kept) |-> WireKey(tool, kept[i])]

\* the i-th smallest element of a set of positions
RECURSIVE Nth(_, _)
Nth(S, i) ==
    LET m == CHOOSE x \in S : \A y \in S : x <= y
    IN  IF i = 1 THEN m ELSE Nth(S \ {m}, i - 1)

\* the document has one clause per supplied optional value, in declaration
\* order, with one comma between two consecutive clauses
ClausesInOrder ==
    (tool \in ClauseTools /\ wire # <<>>) =>
        LET g == wire[1].graphql
            at == ClauseAt(g)
        IN  /\ Cardinality(at) = Len(ExpectedClauses)
            /\ \A i \in 1..Cardinality(at) : g[Nth(at, i)] = ExpectedClauses[i]
            /\ \A i \in 1..(Cardinality(at) - 1) :
                  Cardinality({k \in Nth(at, i)..Nth(at, i + 1) : g[k] = ","}) = 1

\* no argument list of the document is empty or ends in a comma
ArgumentListsClosed ==
    (tool \in ClauseTools /\ wire # <<>>) =>
        LET g == wire[1].graphql
        IN  \A k \in 1..(Len(g) - 1) : ~(g[k] \in {"(", ","} /\ g[k + 1] = ")")

\* C24: every GraphQL document of a Linear tool with optional filters or
\* input fields has one clause per supplied optional value, in declaration
\* order and joined by commas, and has no empty argument list "()" and no
\* argument list that ends in a comma.
C24_WellFormedClauses == ClausesInOrder /\ ArgumentListsClosed

\* the Linear tools that interpolate free text of the caller
TextTools == {"create_issue", "add_comment", "search_issues"}

\* the structure of a GraphQL document: its pieces as a GraphQL lexer reads
\* them, with every string literal replaced by one token.  A double quote
\* opens a literal, the next double quote not behind a backslash closes it,
\* and a newline inside it or the end of the text leaves it unterminated.
RECURSIVE Structure(_, _)
Structure(g, mode) ==
    IF g = <<>> THEN (IF mode = "out" THEN <<>> ELSE <<"<unterminated>">>)
    ELSE LET c == Head(g)
             r == Tail(g)
         IN  CASE mode = "out" /\ c = "\"" -> Structure(r, "in")
               [] mode = "out" /\ c # "\"" -> <<c>> \o Structure(r, "out")
               [] mode = "esc" -> Structure(r, "in")
               [] mode = "in" /\ c = "\"" -> <<"<string>">> \o Structure(r, "out")
               [] mode = "in" /\ c = "\\" -> Structure(r, "esc")
               [] mode = "in" /\ c = "\n" -> <<"<unterminated>">> \o Structure(r, "out")
               [] OTHER -> Structure(r, "in")

\* the arguments with every text replaced by a plain one
Plain(a) ==
    [p \in DOMAIN a |-> IF "chars" \in DOMAIN a[p] THEN Str("x") ELSE a[p]]

\* the document the tool builds for arguments a
Document(t, a) ==
    CASE t = "create_issue" -> linear_create_issue(a).request.graphql
      [] t = "add_comment" -> linear_add_comment(a).request.graphql
      [] OTHER -> linear_search_issues(a).request.graphql

\* C25: the GraphQL document a Linear tool builds from caller-supplied text
\* has the structure of the document built from plain text in its place:
\* the text fills the value of its string literal and nothing else.
C25_TextStaysInLiteral ==
    (tool \in TextTools /\ wire # <<>>) =>
        Structure(wire[1].graphql, "out") = Structure(Document(tool, Plain(args)), "out")

\* the Gemini tools of the model
GeminiTools ==
    {"generate_text", "batch_generate", "gemini_count_tokens", "stream_generate",
     "embed_text"}

\* the positions of the "?" in a URL
QuestionMarks(url) == {i \in 1..Len(url) : url[i] = "?"}

\* the query of a URL: what follows its first "?"
Query(url) ==
    LET first == CHOOSE i \in QuestionMarks(url) : \A j \in QuestionMarks(url) : i <= j
    IN  SubSeq(url, first + 1, Len(url))

\* the positions in query q at which a parameter starts: the first one and
\* those behind an "&"
ParamStarts(q) == {i \in 1..Len(q) : i = 1 \/ q[i - 1] = "&"}

\* the value of the parameter that starts at position i: what follows its
\* "=" up to the next "&" or the end
ParamValueAt(q, i) ==
    LET ends == {j \in (i + 2)..(Len(q) + 1) : j = Len(q) + 1 \/ q[j] = "&"}
        stop == CHOOSE j \in ends : \A k \in ends : j <= k
    IN  SubSeq(q, i + 2, stop - 1)

\* C26: every request URL of a Gemini tool has exactly one "?", and its
\* query has a parameter named key whose value is the API key.
C26_OneQuery ==
    tool \in GeminiTools =>
        \A i \in 1..Len(wire) :
            LET url == wire[i].url
            IN  /\ Cardinality(QuestionMarks(url)) = 1
                /\ \E s \in ParamStarts(Query(url)) :
                      /\ s + 1 <= Len(Query(url))
                      /\ Query(url)[s] = "key"
                      /\ Query(url)[s + 1] = "="
                      /\ ParamValueAt(Query(url), s) = <<PyStr(cred)>>

\* the model a Gemini URL names: the piece behind "models/"
PathModel(url) == url[(CHOOSE i \in 1..Len(url) : url[i] = "models/") + 1]

\* C27: every request of a Gemini tool with a model argument names the
\* caller's model in the URL path, and a model named in the body is the
\* same one.
C27_ModelInPath ==
    tool \in GeminiTools =>
        \A i \in 1..Len(wire) :
            /\ PathModel(wire[i].url) = PyStr(args.model)
            /\ "model" \in DOMAIN wire[i].json =>
                  wire[i].json.model = <<"models/", PathModel(wire[i].url)>>

\* the request and the result of multi_turn_conversation against the
\* caller's history
HistoryExtended ==
    tool = "multi_turn_conversation" =>
        LET h == args.conversation_history.items
            user == [role |-> "user", content |-> args.new_message]
        IN  /\ \A i \in 1..Len(wire) : wire[i].json.messages = h \o <<user>>
            /\ pc = "done" =>
                  LET u == outcome.value.updated_history
                      text == JoinNewline(text_content(resp.body))
                  IN  /\ Len(u) = Len(h) + 2
                      /\ SubSeq(u, 1, Len(h)) = h
                      /\ u[Len(h) + 1] = user
                      /\ u[Len(h) + 2] = [role |-> "assistant", content |-> text]
                      /\ outcome.value.response = text

\* C28: multi_turn_conversation sends conversation_history followed by one
\* user message with new_message, and returns updated_history equal to those
\* messages followed by one assistant message with the extracted text
\* (len(conversation_history) + 2 entries, conversation_history the prefix);
\* the caller's list is the same from the call to its end.
C28_HistoryFrame ==
    /\ []HistoryExtended
    /\ [][(tool = "multi_turn_conversation" /\ tool' = "multi_turn_conversation")
              => args' = args]_vars

\* C28 witness: a conversation of two messages came back as four
C28_Witness ==
    /\ tool = "multi_turn_conversation"
    /\ pc = "done"
    /\ Len(args.conversation_history.items) = 2
    /\ Len(outcome.value.updated_history) = 4
    /\ outcome.value.updated_history[4].content = <<"A", "\n", "B">>

\* image_data is at most HexPrefix characters of the start of the body's hex
\* encoding followed by the marker, the note is there, and what was cut is
\* marked
ScreenshotPrefixMarked ==
    (tool = "generate_screenshot" /\ pc = "done") =>
        LET h == hex(image_content(resp.body))
            d == outcome.value.image_data
            n == Len(d) - 1
        IN  /\ n >= 0 /\ n <= HexPrefix
            /\ SubSeq(d, 1, n) = SubSeq(h, 1, n)
            /\ d[Len(d)] = "..."
            /\ outcome.value.note = "Full image data available in response"
            /\ n < Len(h) => d[Len(d)] = "..."

\* the marker is in image_data only when hex characters were left out
MarkerOnlyWhenCut ==
    (tool = "generate_screenshot" /\ pc = "done") =>
        LET h == hex(image_content(resp.body))
            d == outcome.value.image_data
        IN  d[Len(d)] = "..." => Len(h) > Len(d) - 1

\* C29: generate_screenshot returns as image_data a prefix of at most 100
\* characters of the hex encoding of the body followed by the marker "...",
\* always with the note that the full data is available separately, and the
\* marker is there only when the payload was cut short.
C29_NoSilentTruncation == ScreenshotPrefixMarked /\ MarkerOnlyWhenCut

====
